---- MODULE Spec2Model ----
(***************************************************************************)
(* VitalCircle backend: the Health Insight Engine (AIService), the         *)
(* dashboard controller that serves it over HTTP, and the collaborators    *)
(* they await (Firestore lookups, the generative-model client).            *)
(*                                                                         *)
(* Texts are sequences of tokens.  A model response is a token sequence    *)
(* over Token; a person's name is a token sequence in which " " is the     *)
(* blank.  A JSON value is a record [t, n, o]: t is "obj", "num" or        *)
(* "null", n the number when t = "num", o the record of the object's       *)
(* members when t = "obj".                                                 *)
(***************************************************************************)
EXTENDS Integers, Sequences, FiniteSets, TLC

(***************************************************************************)
(* Bounds of the model.                                                    *)
(***************************************************************************)
MaxTextLen == 3
MaxVitals == 2
MaxConditions == 3
MaxWindow == 3
MaxQualityLen == 8
MaxHistory == 12
MaxDocs == 2

(***************************************************************************)
(* Program constants.                                                      *)
(***************************************************************************)
ColdStartScore == 50
FallbackScore == 65
ControllerFallbackScore == 70
PromptVitalsLimit == 10
HistoryDays == 30
HistoryLimit == 100
LatestCount == 3
RecentDays == 7
ConsistencyTarget == 7

Min(a, b) == IF a < b THEN a ELSE b

(***************************************************************************)
(* Text of a model response.                                               *)
(*   "{" "}"   the brace characters                                        *)
(*   "w"       a word of prose                                             *)
(*   "sp"      white space                                                 *)
(*   "num"     the number literal 42                                       *)
(*   "null"    the literal null                                            *)
(*   "mOK"     the members "score":72,"summary":"..","riskForecast":".."   *)
(*   "mHigh"   the same members with "score":150                           *)
(*   "mNudges" the members "diet":"..","personalCare":"..","social":".."   *)
(***************************************************************************)
Token == {"{", "}", "w", "sp", "num", "null", "mOK", "mHigh", "mNudges"}
MemberToken == {"mOK", "mHigh", "mNudges"}

Texts == UNION {[1..n -> Token] : n \in 0..MaxTextLen}

\* The texts the model answers with.  A direct call of one engine function is
\* explored for every text; a request that runs both engine functions side by
\* side is explored for a well-formed answer of each kind and for prose.
SampleTexts == { <<"{", "mOK", "}">>, <<"{", "mNudges", "}">>, <<"w">> }
ResponseTexts(o) == IF o \in {"score", "nudges"} THEN Texts ELSE SampleTexts

EmptyObj == [f \in {} |-> 0]
JObj(members) == [t |-> "obj", n |-> 0, o |-> members]
JNum(k) == [t |-> "num", n |-> k, o |-> EmptyObj]
JNull == [t |-> "null", n |-> 0, o |-> EmptyObj]

MembersOf(tok) ==
  CASE tok = "mOK" -> [score |-> 72, summary |-> <<"model">>, riskForecast |-> <<"model">>]
    [] tok = "mHigh" -> [score |-> 150, summary |-> <<"model">>, riskForecast |-> <<"model">>]
    [] tok = "mNudges" -> [diet |-> <<"model">>, personalCare |-> <<"model">>, social |-> <<"model">>]

\* String.prototype.indexOf / lastIndexOf on a token sequence; 0 stands for JS -1.
IndexOf(s, c) ==
  IF \E i \in 1..Len(s) : s[i] = c
  THEN CHOOSE i \in 1..Len(s) : s[i] = c /\ \A j \in 1..(i - 1) : s[j] # c
  ELSE 0

LastIndexOf(s, c) ==
  IF \E i \in 1..Len(s) : s[i] = c
  THEN CHOOSE i \in 1..Len(s) : s[i] = c /\ \A j \in (i + 1)..Len(s) : s[j] # c
  ELSE 0

\* String.prototype.trim: drops leading and trailing white space.
Trim(s) ==
  IF \A i \in 1..Len(s) : s[i] = "sp"
  THEN << >>
  ELSE LET a == CHOOSE i \in 1..Len(s) : s[i] # "sp" /\ \A j \in 1..(i - 1) : s[j] = "sp"
           b == CHOOSE i \in 1..Len(s) : s[i] # "sp" /\ \A j \in (i + 1)..Len(s) : s[j] = "sp"
       IN SubSeq(s, a, b)

\* text.match(/\{[\s\S]*\}/): the span from the first "{" to the last "}",
\* when the last "}" comes after the first "{"; << >> with found = FALSE otherwise.
RegexMatch(text) ==
  LET a == IndexOf(text, "{")
      b == LastIndexOf(text, "}")
  IN IF a # 0 /\ b > a
     THEN [found |-> TRUE, span |-> SubSeq(text, a, b)]
     ELSE [found |-> FALSE, span |-> << >>]

extractJSON(text) ==
  LET m == RegexMatch(text)
      c0 == Trim(text)
      c1 == IF (c0 = << >> \/ Head(c0) # "{") /\ IndexOf(c0, "{") # 0
            THEN SubSeq(c0, IndexOf(c0, "{"), Len(c0))
            ELSE c0
      c2 == IF (c1 = << >> \/ c1[Len(c1)] # "}") /\ LastIndexOf(c1, "}") # 0
            THEN SubSeq(c1, 1, LastIndexOf(c1, "}"))
            ELSE c1
  IN IF m.found THEN m.span ELSE c2

\* JSON.parse: white space between tokens is skipped; the text must be one
\* value: a number, null, or an object { } or { members }.  ok = FALSE is the
\* SyntaxError.
JSONparse(s) ==
  LET v == SelectSeq(s, LAMBDA c : c # "sp")
  IN CASE v = <<"num">> -> [ok |-> TRUE, val |-> JNum(42)]
       [] v = <<"null">> -> [ok |-> TRUE, val |-> JNull]
       [] v = <<"{", "}">> -> [ok |-> TRUE, val |-> JObj(EmptyObj)]
       [] Len(v) = 3 /\ v[1] = "{" /\ v[2] \in MemberToken /\ v[3] = "}"
            -> [ok |-> TRUE, val |-> JObj(MembersOf(v[2]))]
       [] OTHER -> [ok |-> FALSE, val |-> JNull]

(***************************************************************************)
(* Stored data: user profiles and vitals records (Firestore).              *)
(***************************************************************************)
Profiles ==
  { [fullName |-> <<"Ann", " ", "Lee">>, healthConditions |-> <<"Hypertension">>],
    [fullName |-> <<"Bo">>, healthConditions |-> <<"Asthma">>] }

NoUser == [fullName |-> << >>, healthConditions |-> << >>]

\* A vitals collection in the order of orderBy('timestamp', 'desc'): ageDays
\* never decreases along the sequence.
VitalsStores ==
  { v \in UNION {[1..n -> [id : 1..MaxVitals, ageDays : {1, 45}]] : n \in 0..MaxVitals} :
      /\ \A i \in 1..Len(v) : v[i].id = i
      /\ \A i \in 1..(Len(v) - 1) : v[i].ageDays <= v[i + 1].ageDays }

Take(s, k) == SubSeq(s, 1, Min(k, Len(s)))

getVitalsHistory(store, days, limit) ==
  Take(SelectSeq(store, LAMBDA r : r.ageDays <= days), limit)

getLatestVitals(store, count) == Take(store, count)

\* The part of getVitalsStats this model keeps: null for an empty window,
\* otherwise the number of entries.
getVitalsStats(store, days) ==
  LET h == getVitalsHistory(store, days, HistoryLimit)
  IN IF Len(h) = 0 THEN [isNull |-> TRUE, totalEntries |-> 0]
     ELSE [isNull |-> FALSE, totalEntries |-> Len(h)]

(***************************************************************************)
(* AIService: datasets, prompts, defaults.                                 *)
(***************************************************************************)
NullDoc == "null"
UnloadedDatasets == [hypertension |-> NullDoc, diabetes |-> NullDoc, heartrisk |-> NullDoc]
LoadedDatasets ==
  [hypertension |-> "hypertension.json", diabetes |-> "diabetes.json", heartrisk |-> "heartrisk.json"]

conditionMappings ==
  [c \in {"Hypertension", "Type 2 Diabetes", "Type 1 Diabetes", "Heart Disease", "Cardiac Risk"} |->
     CASE c = "Hypertension" -> "hypertension"
       [] c \in {"Type 2 Diabetes", "Type 1 Diabetes"} -> "diabetes"
       [] OTHER -> "heartrisk"]

\* The default branch left out: nothing is added when no condition matches.
getRelevantDatasetsNoDefault(ds, healthConditions) ==
  LET matched == { healthConditions[i] : i \in
                     { j \in 1..Len(healthConditions) :
                         /\ healthConditions[j] \in DOMAIN conditionMappings
                         /\ ds[conditionMappings[healthConditions[j]]] # NullDoc } }
  IN [c \in matched |-> ds[conditionMappings[c]]]

getRelevantDatasets(ds, healthConditions) ==
  LET matched == { healthConditions[i] : i \in
                     { j \in 1..Len(healthConditions) :
                         /\ healthConditions[j] \in DOMAIN conditionMappings
                         /\ ds[conditionMappings[healthConditions[j]]] # NullDoc } }
  IN IF matched = {}
     THEN [c \in {"General Health"} |-> ds.hypertension]
     ELSE [c \in matched |-> ds[conditionMappings[c]]]

\* The default entry written into this.datasets, not into the local object.
EngineDatasetsAfterDefaultStored(ds, healthConditions) ==
  IF DOMAIN getRelevantDatasets(ds, healthConditions) = {"General Health"}
  THEN [ds EXCEPT !.heartrisk = ds.hypertension]
  ELSE ds

\* this.datasets after getRelevantDatasets: the function fills its local
\* `datasets` object and only reads this.datasets.
EngineDatasetsAfter(ds, healthConditions) == ds

\* fullName.split(' ')[0]: the text before the first blank.
FirstWord(name) ==
  IF IndexOf(name, " ") = 0 THEN name ELSE SubSeq(name, 1, IndexOf(name, " ") - 1)

getDefaultNudges(u) ==
  LET firstName == IF FirstWord(u.fullName) = << >> THEN <<"Friend">> ELSE FirstWord(u.fullName)
  IN JObj([diet |-> <<"Hi">> \o firstName \o <<"managing">> \o u.healthConditions,
           personalCare |-> <<"moment">> \o firstName,
           social |-> <<"reach out">>])

NoPrompt ==
  [kind |-> "none", userName |-> << >>, conditions |-> << >>,
   datasets |-> [c \in {} |-> ""], vitals |-> << >>]

\* The history embedded whole, without slice(0, 10).
buildStabilityScorePromptUnsliced(data) ==
  [kind |-> "stability", userName |-> << >>, conditions |-> data.userConditions,
   datasets |-> data.datasets, vitals |-> data.vitalsHistory]

buildStabilityScorePrompt(data) ==
  [kind |-> "stability", userName |-> << >>, conditions |-> data.userConditions,
   datasets |-> data.datasets, vitals |-> Take(data.vitalsHistory, PromptVitalsLimit)]

buildNudgePrompt(data) ==
  [kind |-> "nudge", userName |-> data.userName, conditions |-> data.userConditions,
   datasets |-> data.datasets, vitals |-> <<data.latestVitals>>]

ColdStartAssessment ==
  JObj([score |-> ColdStartScore, summary |-> <<"not enough data">>,
        riskForecast |-> <<"continue monitoring">>])

FallbackAssessment ==
  JObj([score |-> FallbackScore, summary |-> <<"difficulty analyzing">>,
        riskForecast |-> <<"continue routine">>])

\* DashboardController.getFallbackInsights
getFallbackInsights(u) ==
  LET firstName == IF FirstWord(u.fullName) = << >> THEN <<"Friend">> ELSE FirstWord(u.fullName)
  IN [stabilityScore |-> JObj([score |-> ControllerFallbackScore,
                               summary |-> <<"Hi">> \o firstName \o <<"still learning">>,
                               riskForecast |-> <<"continue monitoring">>]),
      nudges |-> JObj([diet |-> <<"heart-healthy">> \o firstName,
                       personalCare |-> <<"few minutes">>,
                       social |-> <<"connection">>])]

\* The shapes the data model names.
IsStabilityAssessment(v) ==
  /\ v.t = "obj"
  /\ DOMAIN v.o = {"score", "summary", "riskForecast"}
  /\ v.o.score \in 0..100

IsNudgeSet(v) ==
  /\ v.t = "obj"
  /\ DOMAIN v.o = {"diet", "personalCare", "social"}

(***************************************************************************)
(* State.                                                                  *)
(***************************************************************************)
VARIABLES
  serverState,    \* "starting", "listening" or "exited" (startServer)
  datasets,       \* AIService.datasets
  profile,        \* the stored profile of the user
  vitals,         \* the stored vitals of the user, most recent first
  op,             \* the entry point being served, "none" when there is none
  pc,             \* per engine call: the await it is suspended at
  user,           \* per engine call: the local const user
  fetched,        \* per engine call: the local const vitalsHistory / latestVitals
  result,         \* per engine call: how its promise settled
  modelCalls,     \* per engine call: number of model.generateContent calls
  prompt,         \* per engine call: the prompt handed to the model
  modelResponse,  \* the latest answer delivered by the model client
  insights,       \* the promise of getDashboardInsights
  dash,           \* getDashboard: its three Firestore branches
  handler,        \* the route handler: "idle", "running", "done", "rejected"
  response,       \* the HTTP response (status 0: none sent)
  calc,           \* a function of the engine or the aggregator applied to one input
  api,            \* the protected routes: the request in progress, the vitals collection
  auth            \* the client's auth store, Firebase Auth and the backend as it sees them

vars == <<serverState, datasets, profile, vitals, op, pc, user, fetched, result, modelCalls,
          prompt, modelResponse, insights, dash, handler, response, calc, api, auth>>

\* The values of api and auth where they play no part.
NoApi == [stage |-> "off"]
NoAuth == [stage |-> "off"]

\* calc = [fn, arg, done, out]: the function, its argument, and its value once
\* it has been applied.
NoCalc == [fn |-> "none", arg |-> << >>, done |-> FALSE, out |-> << >>]

Branches == {"score", "nudges"}
Ops == {"score", "nudges", "insights", "aiInsights", "dashboard"}
ErrorClass == {"quota", "blocked", "apikey", "timeout"}

Pending == [kind |-> "pending", val |-> JNull, err |-> ""]
Return(v) == [kind |-> "return", val |-> v, err |-> ""]
Throw(e) == [kind |-> "throw", val |-> JNull, err |-> e]

NotFetched == [set |-> FALSE, rows |-> << >>]
Fetched(rows) == [set |-> TRUE, rows |-> rows]

NoModelResponse == [to |-> "none", kind |-> "none", text |-> << >>, class |-> ""]
NoAI == [stabilityScore |-> JNull, nudges |-> JNull]
NoInsights == [kind |-> "idle", val |-> NoAI, err |-> ""]
NoDash == [user |-> "idle", vitals |-> "idle", stats |-> "idle"]
NoResponse ==
  [status |-> 0, success |-> FALSE, kind |-> "none", ai |-> NoAI, note |-> FALSE,
   aiEnabled |-> FALSE, user |-> NoUser, vitalsTotal |-> 0, statsNull |-> TRUE]

\* routes/dashboard.js hands the methods to the router detached from the
\* controller object, so inside a handler `this` is undefined.
HandlerThisBound == FALSE

Init ==
  /\ serverState = "starting"
  /\ datasets = UnloadedDatasets
  /\ profile \in Profiles
  /\ vitals \in VitalsStores
  /\ op = "none"
  /\ pc = [b \in Branches |-> "idle"]
  /\ user = [b \in Branches |-> NoUser]
  /\ fetched = [b \in Branches |-> NotFetched]
  /\ result = [b \in Branches |-> Pending]
  /\ modelCalls = [b \in Branches |-> 0]
  /\ prompt = [b \in Branches |-> NoPrompt]
  /\ modelResponse = NoModelResponse
  /\ insights = NoInsights
  /\ dash = NoDash
  /\ handler = "idle"
  /\ response = NoResponse
  /\ calc = NoCalc
  /\ api = NoApi
  /\ auth = NoAuth

(***************************************************************************)
(* startServer: Firebase, then the AI service with its three datasets,     *)
(* then listen; any failure exits the process.                             *)
(***************************************************************************)
StartFailures ==
  {"none", "firebase", "readFile", "parse hypertension", "parse diabetes", "parse heartrisk"}

\* loadDatasets reads the three files, then parses and assigns them in
\* turn: a parse error leaves the datasets before it assigned.
loadDatasets(failure, ds) ==
  CASE failure = "none" -> LoadedDatasets
    [] failure = "parse diabetes" -> [ds EXCEPT !.hypertension = LoadedDatasets.hypertension]
    [] failure = "parse heartrisk" ->
         [ds EXCEPT !.hypertension = LoadedDatasets.hypertension,
                    !.diabetes = LoadedDatasets.diabetes]
    [] OTHER -> ds

\* The failure logged and not fatal: the server listens all the same.
startServerListensAnyway(failure, ds) ==
  [datasets |-> loadDatasets(failure, ds), serverState |-> "listening"]

\* firebaseService.initialize(); await aiService.initialize(); app.listen(..);
\* catch: process.exit(1)
startServer(failure, ds) ==
  [datasets |-> loadDatasets(failure, ds),
   serverState |-> IF failure = "none" THEN "listening" ELSE "exited"]

StartServer ==
  /\ serverState = "starting"
  /\ \E failure \in StartFailures :
       /\ datasets' = startServer(failure, datasets).datasets
       /\ serverState' = startServer(failure, datasets).serverState
  /\ UNCHANGED <<api, auth, calc, profile, vitals, op, pc, user, fetched, result, modelCalls, prompt,
                 modelResponse, insights, dash, handler, response>>

(***************************************************************************)
(* An entry point is invoked: the engine's calculateStabilityScore or      *)
(* generateNudges or getDashboardInsights, or a request to                 *)
(* GET /api/dashboard/insights or GET /api/dashboard that passed           *)
(* verifyToken.  Each engine call runs up to its first await.              *)
(***************************************************************************)
Quiescent ==
  /\ \A b \in Branches : pc[b] \in {"idle", "done"}
  /\ insights.kind # "pending"
  /\ handler # "running"

Invoke(o) ==
  /\ serverState = "listening"
  /\ Quiescent
  /\ op' = o
  /\ pc' = [b \in Branches |->
              IF o \in {"insights", "aiInsights", "dashboard"} \/ o = b
              THEN "getUser" ELSE "idle"]
  /\ user' = [b \in Branches |-> NoUser]
  /\ fetched' = [b \in Branches |-> NotFetched]
  /\ result' = [b \in Branches |-> Pending]
  /\ modelCalls' = [b \in Branches |-> 0]
  /\ prompt' = [b \in Branches |-> NoPrompt]
  /\ modelResponse' = NoModelResponse
  /\ insights' = IF o \in {"insights", "aiInsights", "dashboard"}
                 THEN [NoInsights EXCEPT !.kind = "pending"] ELSE NoInsights
  /\ dash' = IF o = "dashboard"
             THEN [user |-> "pending", vitals |-> "pending", stats |-> "pending"]
             ELSE NoDash
  /\ handler' = IF o \in {"aiInsights", "dashboard"} THEN "running" ELSE "idle"
  /\ response' = NoResponse
  /\ UNCHANGED <<api, auth, calc, serverState, datasets, profile, vitals>>

(***************************************************************************)
(* AIService.calculateStabilityScore                                       *)
(***************************************************************************)
\* A catch block that rethrows instead of returning the fallback.
ScoreCatchRethrows(calls) ==
  [pc |-> "done", result |-> Throw("rethrown"), modelCalls |-> calls, prompt |-> NoPrompt]

\* A catch block that queries the model a second time after a failed call.
ScoreCatchRetries(calls) ==
  IF calls = 1
  THEN [pc |-> "awaitModel", result |-> Pending, modelCalls |-> calls + 1, prompt |-> NoPrompt]
  ELSE [pc |-> "done", result |-> Return(FallbackAssessment), modelCalls |-> calls,
        prompt |-> NoPrompt]

\* The catch block: log, return the fixed fallback.
ScoreCatch(calls) ==
  [pc |-> "done", result |-> Return(FallbackAssessment), modelCalls |-> calls,
   prompt |-> NoPrompt]

\* The history guard left out: the model is called for an empty history too.
ScoreAfterHistoryUnguarded(u, h, ds, calls) ==
  [pc |-> "awaitModel", result |-> Pending, modelCalls |-> calls + 1,
   prompt |-> buildStabilityScorePrompt(
                [userConditions |-> u.healthConditions, vitalsHistory |-> h,
                 datasets |-> getRelevantDatasets(ds, u.healthConditions)])]

\* From the resolved history to the model call (or the cold-start return).
ScoreAfterHistory(u, h, ds, calls) ==
  IF Len(h) = 0
  THEN [pc |-> "done", result |-> Return(ColdStartAssessment), modelCalls |-> calls,
        prompt |-> NoPrompt]
  ELSE [pc |-> "awaitModel", result |-> Pending, modelCalls |-> calls + 1,
        prompt |-> buildStabilityScorePrompt(
                     [userConditions |-> u.healthConditions, vitalsHistory |-> h,
                      datasets |-> getRelevantDatasets(ds, u.healthConditions)])]

\* From the model's text to the return: JSON.parse(extractJSON(text)), then
\* the log line reads analysis.score (a TypeError when analysis is null).
ScoreAfterText(text, calls) ==
  LET p == JSONparse(extractJSON(text))
  IN IF ~p.ok \/ p.val.t = "null"
     THEN ScoreCatch(calls)
     ELSE [pc |-> "done", result |-> Return(p.val), modelCalls |-> calls, prompt |-> NoPrompt]

ScoreStep(next, keepPrompt) ==
  /\ pc' = [pc EXCEPT !.score = next.pc]
  /\ result' = [result EXCEPT !.score = next.result]
  /\ modelCalls' = [modelCalls EXCEPT !.score = next.modelCalls]
  /\ prompt' = IF keepPrompt THEN prompt ELSE [prompt EXCEPT !.score = next.prompt]

\* await firebaseService.getUserById(userId)
Score_UserLookup ==
  /\ pc.score = "getUser"
  /\ \E ok \in BOOLEAN :
       IF ok
       THEN /\ user' = [user EXCEPT !.score = profile]
            /\ pc' = [pc EXCEPT !.score = "getVitals"]
            /\ UNCHANGED <<result, modelCalls, prompt>>
       ELSE /\ ScoreStep(ScoreCatch(modelCalls.score), TRUE)
            /\ UNCHANGED user
  /\ UNCHANGED <<api, auth, calc, serverState, datasets, profile, vitals, op, fetched, modelResponse, insights,
                 dash, handler, response>>

\* await firebaseService.getVitalsHistory(userId, 30), then up to the model call
Score_VitalsLookup ==
  /\ pc.score = "getVitals"
  /\ \E ok \in BOOLEAN :
       IF ok
       THEN LET vitalsHistory == getVitalsHistory(vitals, HistoryDays, HistoryLimit)
            IN /\ fetched' = [fetched EXCEPT !.score = Fetched(vitalsHistory)]
               /\ ScoreStep(ScoreAfterHistory(user.score, vitalsHistory, datasets,
                                              modelCalls.score), FALSE)
               /\ datasets' = IF Len(vitalsHistory) = 0 THEN datasets
                               ELSE EngineDatasetsAfter(datasets, user.score.healthConditions)
       ELSE /\ ScoreStep(ScoreCatch(modelCalls.score), TRUE)
            /\ UNCHANGED <<fetched, datasets>>
  /\ UNCHANGED <<api, auth, calc, serverState, profile, vitals, op, user, modelResponse, insights,
                 dash, handler, response>>

\* await this.model.generateContent(prompt) rejects
Score_ModelThrows ==
  /\ pc.score = "awaitModel"
  /\ \E class \in ErrorClass :
       modelResponse' = [to |-> "score", kind |-> "throw", text |-> << >>, class |-> class]
  /\ ScoreStep(ScoreCatch(modelCalls.score), TRUE)
  /\ UNCHANGED <<api, auth, calc, serverState, datasets, profile, vitals, op, user, fetched, insights, dash,
                 handler, response>>

\* await this.model.generateContent(prompt) resolves with a text
Score_ModelReturns ==
  /\ pc.score = "awaitModel"
  /\ \E text \in ResponseTexts(op) :
       /\ modelResponse' = [to |-> "score", kind |-> "text", text |-> text, class |-> ""]
       /\ ScoreStep(ScoreAfterText(text, modelCalls.score), TRUE)
  /\ UNCHANGED <<api, auth, calc, serverState, datasets, profile, vitals, op, user, fetched, insights, dash,
                 handler, response>>

(***************************************************************************)
(* AIService.generateNudges                                                *)
(***************************************************************************)
\* The catch block: return this.getDefaultNudges(user).  `user` is declared
\* with const inside the try block and is not in scope here, so evaluating
\* the argument throws a ReferenceError and the promise rejects.
NudgesCatch(calls) ==
  [pc |-> "done", result |-> Throw("ReferenceError: user is not defined"),
   modelCalls |-> calls, prompt |-> NoPrompt]

NudgesAfterLatest(u, latest, ds, calls) ==
  IF Len(latest) = 0
  THEN [pc |-> "done", result |-> Return(getDefaultNudges(u)), modelCalls |-> calls,
        prompt |-> NoPrompt]
  ELSE [pc |-> "awaitModel", result |-> Pending, modelCalls |-> calls + 1,
        prompt |-> buildNudgePrompt(
                     [userConditions |-> u.healthConditions, latestVitals |-> latest[1],
                      recentVitals |-> latest,
                      datasets |-> getRelevantDatasets(ds, u.healthConditions),
                      userName |-> FirstWord(u.fullName)])]

NudgesAfterText(text, calls) ==
  LET p == JSONparse(extractJSON(text))
  IN IF ~p.ok
     THEN NudgesCatch(calls)
     ELSE [pc |-> "done", result |-> Return(p.val), modelCalls |-> calls, prompt |-> NoPrompt]

NudgesStep(next, keepPrompt) ==
  /\ pc' = [pc EXCEPT !.nudges = next.pc]
  /\ result' = [result EXCEPT !.nudges = next.result]
  /\ modelCalls' = [modelCalls EXCEPT !.nudges = next.modelCalls]
  /\ prompt' = IF keepPrompt THEN prompt ELSE [prompt EXCEPT !.nudges = next.prompt]

\* await firebaseService.getUserById(userId)
Nudges_UserLookup ==
  /\ pc.nudges = "getUser"
  /\ \E ok \in BOOLEAN :
       IF ok
       THEN /\ user' = [user EXCEPT !.nudges = profile]
            /\ pc' = [pc EXCEPT !.nudges = "getVitals"]
            /\ UNCHANGED <<result, modelCalls, prompt>>
       ELSE /\ NudgesStep(NudgesCatch(modelCalls.nudges), TRUE)
            /\ UNCHANGED user
  /\ UNCHANGED <<api, auth, calc, serverState, datasets, profile, vitals, op, fetched, modelResponse, insights,
                 dash, handler, response>>

\* await firebaseService.getLatestVitals(userId, 3), then up to the model call
Nudges_LatestLookup ==
  /\ pc.nudges = "getVitals"
  /\ \E ok \in BOOLEAN :
       IF ok
       THEN LET latestVitals == getLatestVitals(vitals, LatestCount)
            IN /\ fetched' = [fetched EXCEPT !.nudges = Fetched(latestVitals)]
               /\ NudgesStep(NudgesAfterLatest(user.nudges, latestVitals, datasets,
                                               modelCalls.nudges), FALSE)
               /\ datasets' = IF Len(latestVitals) = 0 THEN datasets
                               ELSE EngineDatasetsAfter(datasets, user.nudges.healthConditions)
       ELSE /\ NudgesStep(NudgesCatch(modelCalls.nudges), TRUE)
            /\ UNCHANGED <<fetched, datasets>>
  /\ UNCHANGED <<api, auth, calc, serverState, profile, vitals, op, user, modelResponse, insights,
                 dash, handler, response>>

Nudges_ModelThrows ==
  /\ pc.nudges = "awaitModel"
  /\ \E class \in ErrorClass :
       modelResponse' = [to |-> "nudges", kind |-> "throw", text |-> << >>, class |-> class]
  /\ NudgesStep(NudgesCatch(modelCalls.nudges), TRUE)
  /\ UNCHANGED <<api, auth, calc, serverState, datasets, profile, vitals, op, user, fetched, insights, dash,
                 handler, response>>

Nudges_ModelReturns ==
  /\ pc.nudges = "awaitModel"
  /\ \E text \in ResponseTexts(op) :
       /\ modelResponse' = [to |-> "nudges", kind |-> "text", text |-> text, class |-> ""]
       /\ NudgesStep(NudgesAfterText(text, modelCalls.nudges), TRUE)
  /\ UNCHANGED <<api, auth, calc, serverState, datasets, profile, vitals, op, user, fetched, insights, dash,
                 handler, response>>

(***************************************************************************)
(* AIService.getDashboardInsights: Promise.all over the two engine calls.  *)
(* It rejects as soon as one call has rejected, and fulfils when both      *)
(* have returned; the catch block logs and rethrows.                       *)
(***************************************************************************)
PromiseAll(r) ==
  IF \E b \in Branches : r[b].kind = "throw"
  THEN [kind |-> "throw", val |-> NoAI,
        err |-> (CHOOSE e \in {r[b].err : b \in {c \in Branches : r[c].kind = "throw"}} : TRUE)]
  ELSE IF \A b \in Branches : r[b].kind = "return"
  THEN [kind |-> "return", val |-> [stabilityScore |-> r.score.val, nudges |-> r.nudges.val],
        err |-> ""]
  ELSE [kind |-> "pending", val |-> NoAI, err |-> ""]

Insights_Settle ==
  /\ insights.kind = "pending"
  /\ PromiseAll(result).kind # "pending"
  /\ insights' = PromiseAll(result)
  /\ UNCHANGED <<api, auth, calc, serverState, datasets, profile, vitals, op, pc, user, fetched, result, modelCalls,
                 prompt, modelResponse, dash, handler, response>>

(***************************************************************************)
(* DashboardController                                                     *)
(***************************************************************************)
\* A handler's promise rejected.  Express 4 ignores the promise: nothing is
\* ever sent.  Express 5 passes the error to the global error handler, which
\* sends status 500 with success = false.
UnhandledRejection(framework) ==
  IF framework = "express4"
  THEN [handler |-> "rejected", response |-> NoResponse]
  ELSE [handler |-> "rejected",
        response |-> [NoResponse EXCEPT !.status = 500, !.kind = "error"]]

\* getAIInsights after `await aiService.getDashboardInsights(userId)`
getAIInsights(ins, reqUser, framework) ==
  IF ins.kind = "return"
  THEN [handler |-> "done",
        response |-> [NoResponse EXCEPT !.status = 200, !.success = TRUE,
                                        !.kind = "insights", !.ai = ins.val]]
  ELSE IF HandlerThisBound
  THEN [handler |-> "done",
        response |-> [NoResponse EXCEPT !.status = 200, !.success = TRUE,
                                        !.kind = "insights", !.note = TRUE,
                                        !.ai = getFallbackInsights(reqUser)]]
  ELSE UnhandledRejection(framework)

AIInsights_Respond ==
  /\ op = "aiInsights"
  /\ handler = "running"
  /\ insights.kind \in {"return", "throw"}
  /\ \E framework \in {"express4", "express5"} :
       LET r == getAIInsights(insights, profile, framework)
       IN /\ handler' = r.handler
          /\ response' = r.response
  /\ UNCHANGED <<api, auth, calc, serverState, datasets, profile, vitals, op, pc, user, fetched, result, modelCalls,
                 prompt, modelResponse, insights, dash>>

\* getDashboard: getUserById, getVitalsHistory and getVitalsStats settle
Dashboard_Fetch ==
  /\ op = "dashboard"
  /\ \A which \in DOMAIN dash : dash[which] = "pending"
  /\ dash' \in [DOMAIN dash -> {"ok", "fail"}]
  /\ UNCHANGED <<api, auth, calc, serverState, datasets, profile, vitals, op, pc, user, fetched, result, modelCalls,
                 prompt, modelResponse, insights, handler, response>>

\* getDashboard after `await Promise.allSettled([...])`
getDashboard(d, ins, store, prof) ==
  LET history == IF d.vitals = "ok" THEN getVitalsHistory(store, HistoryDays, HistoryLimit)
                 ELSE << >>
      stats == IF d.stats = "ok" THEN getVitalsStats(store, HistoryDays)
               ELSE [isNull |-> TRUE, totalEntries |-> 0]
  IN IF d.user # "ok"
     THEN [handler |-> "done",
           response |-> [NoResponse EXCEPT !.status = 404, !.kind = "error"]]
     ELSE IF ~HandlerThisBound
     \* this.formatVitalsForCharts: TypeError inside the try block
     THEN [handler |-> "done",
           response |-> [NoResponse EXCEPT !.status = 500, !.kind = "error"]]
     ELSE [handler |-> "done",
           response |-> [status |-> 200, success |-> TRUE, kind |-> "dashboard",
                         ai |-> IF ins.kind = "return" THEN ins.val
                                ELSE getFallbackInsights(prof),
                         note |-> FALSE,
                         aiEnabled |-> (ins.kind = "return"),
                         user |-> prof,
                         vitalsTotal |-> Len(history),
                         statsNull |-> stats.isNull]]

Dashboard_Respond ==
  /\ op = "dashboard"
  /\ handler = "running"
  /\ \A which \in DOMAIN dash : dash[which] \in {"ok", "fail"}
  /\ insights.kind \in {"return", "throw"}
  /\ LET r == getDashboard(dash, insights, vitals, profile)
     IN /\ handler' = r.handler
        /\ response' = r.response
  /\ UNCHANGED <<api, auth, calc, serverState, datasets, profile, vitals, op, pc, user, fetched, result, modelCalls,
                 prompt, modelResponse, insights, dash>>

(***************************************************************************)
(* Specification.  Every step is the continuation of an await that some    *)
(* collaborator resolved.  Firestore and the event loop are taken to       *)
(* answer; the generative-model client is not (FairSpec puts no fairness   *)
(* on its two answers).                                                    *)
(***************************************************************************)
EngineStep ==
  \/ Score_UserLookup
  \/ Score_VitalsLookup
  \/ Nudges_UserLookup
  \/ Nudges_LatestLookup
  \/ Insights_Settle
  \/ AIInsights_Respond
  \/ Dashboard_Fetch
  \/ Dashboard_Respond

ModelStep ==
  \/ Score_ModelThrows
  \/ Score_ModelReturns
  \/ Nudges_ModelThrows
  \/ Nudges_ModelReturns

Next ==
  \/ StartServer
  \/ \E o \in Ops : Invoke(o)
  \/ EngineStep
  \/ ModelStep

Spec == Init /\ [][Next]_vars

FairSpec == Spec /\ WF_vars(StartServer) /\ WF_vars(EngineStep)

(***************************************************************************)
(* Properties.                                                             *)
(***************************************************************************)
ModelThrewTo(b) == modelResponse.to = b /\ modelResponse.kind = "throw"
ModelAnsweredTextTo(b) == modelResponse.to = b /\ modelResponse.kind = "text"

\* Some contiguous part of the text is, on its own, a JSON object.
ContainsJSONObject(text) ==
  \E i \in 1..Len(text) : \E j \in i..Len(text) :
     LET p == JSONparse(SubSeq(text, i, j))
     IN p.ok /\ p.val.t = "obj"

\* C1: when the history is non-empty and the model call throws (whatever the
\* class of the error), calculateStabilityScore has returned, not thrown, and
\* the value is the fallback: score 65 with a summary and a riskForecast.
C1_FallbackOnModelThrow ==
  (ModelThrewTo("score") /\ fetched.score.set /\ Len(fetched.score.rows) > 0) =>
     /\ pc.score = "done"
     /\ result.score.kind = "return"
     /\ result.score.val.t = "obj"
     /\ DOMAIN result.score.val.o = {"score", "summary", "riskForecast"}
     /\ result.score.val.o.score = 65
     /\ result.score.val.o.summary = <<"difficulty analyzing">>
     /\ result.score.val.o.riskForecast = <<"continue routine">>

C1_Witness ==
  /\ op = "score"
  /\ ModelThrewTo("score")
  /\ modelResponse.class = "quota"
  /\ Len(fetched.score.rows) > 0
  /\ pc.score = "done"
  /\ result.score.kind = "return"

\* C2: when the profile lookup succeeded and the 30-day history came back
\* empty, calculateStabilityScore has not called the model and has returned
\* an assessment with score 50.
C2_ColdStartWithoutModel ==
  (user.score \in Profiles /\ fetched.score.set /\ fetched.score.rows = << >>) =>
     /\ modelCalls.score = 0
     /\ prompt.score = NoPrompt
     /\ modelResponse.to # "score"
     /\ pc.score = "done"
     /\ result.score.kind = "return"
     /\ result.score.val.t = "obj"
     /\ result.score.val.o.score = 50

C2_Witness ==
  /\ op = "score"
  /\ user.score \in Profiles
  /\ fetched.score.set
  /\ fetched.score.rows = << >>
  /\ Len(vitals) > 0
  /\ pc.score = "done"
  /\ result.score.val.o.score = 50

\* C3: when a vitals record exists and the model call throws or its answer
\* cannot be parsed, generateNudges has returned (not thrown) the default
\* nudges personalized with the user's name.
C3_NudgesTotal ==
  (/\ fetched.nudges.set /\ Len(fetched.nudges.rows) > 0
   /\ \/ ModelThrewTo("nudges")
      \/ ModelAnsweredTextTo("nudges") /\ ~JSONparse(extractJSON(modelResponse.text)).ok) =>
     /\ pc.nudges = "done"
     /\ result.nudges.kind = "return"
     /\ result.nudges.val = getDefaultNudges(profile)

\* C4: whatever the model answered, a value returned by calculateStabilityScore
\* is an object with exactly an integer score in 0..100, a summary and a
\* riskForecast; an answer that parses but has another shape gives the fallback.
C4_ReturnWellFormed ==
  result.score.kind = "return" =>
     /\ IsStabilityAssessment(result.score.val)
     /\ (ModelAnsweredTextTo("score")
           /\ JSONparse(extractJSON(modelResponse.text)).ok
           /\ ~IsStabilityAssessment(JSONparse(extractJSON(modelResponse.text)).val))
          => result.score.val = FallbackAssessment

\* C5: when the model answers with a text that contains no parseable JSON
\* object, calculateStabilityScore returns the same value as when the model
\* call throws: the fallback with score 65.
C5_MalformedAsThrow ==
  (ModelAnsweredTextTo("score") /\ ~ContainsJSONObject(modelResponse.text)) =>
     /\ pc.score = "done"
     /\ result.score.kind = "return"
     /\ result.score.val.t = "obj"
     /\ result.score.val = ScoreCatch(modelCalls.score).result.val
     /\ result.score.val.o.score = 65

\* C6: an engine call that waits for the model eventually returns, also when
\* the model client never answers.
C6_ModelCallBounded ==
  \A b \in Branches : [](pc[b] = "awaitModel" => <>(pc[b] = "done"))

\* C7: within one invocation of calculateStabilityScore or generateNudges the
\* model client is called at most once, also after a failed call or an
\* unparseable answer.
C7_SingleModelCall ==
  \A b \in Branches : modelCalls[b] <= 1

C7_Witness ==
  /\ modelCalls.score = 1
  /\ pc.score = "done"
  /\ ModelAnsweredTextTo("score")
  /\ ~JSONparse(extractJSON(modelResponse.text)).ok
  /\ modelCalls.nudges = 1
  /\ pc.nudges = "done"

\* C8: a request to GET /api/dashboard/insights during which the model call
\* failed is answered, with status 200 and success = true and insights that
\* carry a stabilityScore and nudges.
C8_InsightsAlwaysAnswered ==
  (op = "aiInsights" /\ handler # "running" /\ modelResponse.kind = "throw") =>
     /\ handler = "done"
     /\ response.status = 200
     /\ response.success
     /\ response.kind = "insights"
     /\ response.ai.stabilityScore.t = "obj"
     /\ response.ai.nudges.t = "obj"

\* C9: whenever the profile lookup of getDashboard succeeded, the request is
\* answered with success = true and the full payload, whichever of the other
\* three branches failed: failed vitals give an empty list, failed statistics
\* null, failed insights the fallback insights with aiEnabled = false.
C9_DashboardAllSettled ==
  (op = "dashboard" /\ handler # "running" /\ dash.user = "ok") =>
     /\ handler = "done"
     /\ response.status = 200
     /\ response.success
     /\ response.kind = "dashboard"
     /\ response.user = profile
     /\ (dash.vitals = "fail" => response.vitalsTotal = 0)
     /\ (dash.stats = "fail" => response.statsNull)
     /\ (insights.kind = "throw" =>
           /\ response.ai = getFallbackInsights(profile)
           /\ ~response.aiEnabled)

\* C10: getDashboardInsights settles by returning insights that hold the
\* value of each engine call (model-derived or that call's own fallback); a
\* failure in one call does not discard the other's value.  With a failed
\* model call and a non-empty history the stabilityScore is the fallback, 65.
C10_BranchesIndependent ==
  (op = "insights" /\ insights.kind \in {"return", "throw"}) =>
     /\ insights.kind = "return"
     /\ insights.val.stabilityScore.t = "obj"
     /\ insights.val.nudges.t = "obj"
     /\ (ModelThrewTo("score") => insights.val.stabilityScore.o.score = 65)

(***************************************************************************)
(* The functions of the engine and of the aggregator, each applied to one  *)
(* input while the backend is otherwise idle.                              *)
(***************************************************************************)
requestVars == <<serverState, datasets, profile, vitals, op, pc, user, fetched, result,
                 modelCalls, prompt, modelResponse, insights, dash, handler, response>>

\* The backend after a successful start, with no request in progress.
IdleBackend ==
  /\ serverState = "listening"
  /\ datasets = LoadedDatasets
  /\ profile = [fullName |-> <<"Bo">>, healthConditions |-> <<"Asthma">>]
  /\ vitals = << >>
  /\ op = "none"
  /\ pc = [b \in Branches |-> "idle"]
  /\ user = [b \in Branches |-> NoUser]
  /\ fetched = [b \in Branches |-> NotFetched]
  /\ result = [b \in Branches |-> Pending]
  /\ modelCalls = [b \in Branches |-> 0]
  /\ prompt = [b \in Branches |-> NoPrompt]
  /\ modelResponse = NoModelResponse
  /\ insights = NoInsights
  /\ dash = NoDash
  /\ handler = "idle"
  /\ response = NoResponse

Input(fn, arg) == [fn |-> fn, arg |-> arg, done |-> FALSE, out |-> << >>]

Apply(fn, out) ==
  /\ calc.fn = fn
  /\ ~calc.done
  /\ calc' = [calc EXCEPT !.done = TRUE, !.out = out]
  /\ UNCHANGED <<requestVars, api, auth>>

\* const analysis = JSON.parse(this.extractJSON(text))
Apply_extractJSON == Apply("extractJSON", JSONparse(extractJSON(calc.arg)))

(***************************************************************************)
(* C11                                                                     *)
(***************************************************************************)
ProseToken == {"w", "sp", "num", "null", "{", "}"}

\* The spans of the text that are, as they stand, a JSON object.
ObjectSpans(text) ==
  { sp \in (1..Len(text)) \X (1..Len(text)) :
      /\ sp[1] < sp[2]
      /\ text[sp[1]] = "{"
      /\ text[sp[2]] = "}"
      /\ JSONparse(SubSeq(text, sp[1], sp[2])).ok }

\* The text is prose, one JSON object, prose.
IsProseAroundOneObject(text) ==
  /\ Cardinality(ObjectSpans(text)) = 1
  /\ LET sp == CHOOSE x \in ObjectSpans(text) : TRUE
     IN /\ \A i \in 1..(sp[1] - 1) : text[i] \in ProseToken
        /\ \A i \in (sp[2] + 1)..Len(text) : text[i] \in ProseToken

EmbeddedObject(text) ==
  LET sp == CHOOSE x \in ObjectSpans(text) : TRUE
  IN JSONparse(SubSeq(text, sp[1], sp[2])).val

\* C11: for a text that is prose (which may contain braces) around exactly one
\* well-formed JSON object, JSON.parse(extractJSON(text)) succeeds and gives
\* the embedded object.
C11_RoundTrip ==
  (calc.fn = "extractJSON" /\ calc.done /\ IsProseAroundOneObject(calc.arg)) =>
     /\ calc.out.ok
     /\ calc.out.val = EmbeddedObject(calc.arg)

(***************************************************************************)
(* C12                                                                     *)
(***************************************************************************)
ConditionLabels ==
  {"Hypertension", "Type 2 Diabetes", "Type 1 Diabetes", "Heart Disease", "Asthma"}

ConditionLists == UNION {[1..n -> ConditionLabels] : n \in 0..MaxConditions}

Apply_getRelevantDatasets ==
  Apply("getRelevantDatasets", getRelevantDatasets(datasets, calc.arg))

\* The dataset each condition label stands for, as the data model gives it.
C12_DatasetOf ==
  [c \in {"Hypertension", "Type 2 Diabetes", "Type 1 Diabetes", "Heart Disease", "Cardiac Risk"} |->
     IF c = "Hypertension" THEN "hypertension.json"
     ELSE IF c \in {"Heart Disease", "Cardiac Risk"} THEN "heartrisk.json"
     ELSE "diabetes.json"]

\* C12: the map getRelevantDatasets returns is never empty; a key other than
\* "General Health" is an input condition that has a dataset, bound to that
\* dataset; "General Health", bound to the hypertension dataset, is there iff
\* no input condition has a dataset.  ["Hypertension"] gives exactly the
\* hypertension entry and [] exactly the "General Health" entry.
C12_RelevantDatasets ==
  (calc.fn = "getRelevantDatasets" /\ calc.done) =>
     LET given == {calc.arg[i] : i \in 1..Len(calc.arg)}
         out == calc.out
     IN /\ DOMAIN out # {}
        /\ \A k \in DOMAIN out \ {"General Health"} :
              /\ k \in given
              /\ k \in DOMAIN C12_DatasetOf
              /\ out[k] = C12_DatasetOf[k]
        /\ ("General Health" \in DOMAIN out) <=> (given \cap DOMAIN C12_DatasetOf = {})
        /\ ("General Health" \in DOMAIN out) => out["General Health"] = "hypertension.json"
        /\ (calc.arg = <<"Hypertension">>) =>
             out = [c \in {"Hypertension"} |-> "hypertension.json"]
        /\ (calc.arg = << >>) => DOMAIN out = {"General Health"}

C12_Witness ==
  /\ calc.fn = "getRelevantDatasets"
  /\ calc.done
  /\ calc.arg = <<"Asthma">>
  /\ DOMAIN calc.out = {"General Health"}

(***************************************************************************)
(* C18                                                                     *)
(***************************************************************************)
\* C18: when generateNudges has finished for a user who has no vitals
\* records, it has not called the model and has returned the default nudges
\* made with the user's first name.
C18_NoVitalsDefaultNudges ==
  (vitals = << >> /\ pc.nudges = "done") =>
     /\ modelCalls.nudges = 0
     /\ result.nudges = Return(getDefaultNudges(profile))

(***************************************************************************)
(* C20                                                                     *)
(***************************************************************************)
\* C20: the server listens only with the three datasets loaded; a start
\* that failed (Firebase, a file read, a parse) has exited with a dataset
\* missing and serves nothing; every request runs on a listening server
\* with the three datasets loaded.
C20_ListenAfterInitialize ==
  /\ serverState = "listening" => datasets = LoadedDatasets
  /\ serverState = "exited" =>
       /\ datasets # LoadedDatasets
       /\ op = "none"
       /\ response = NoResponse
       /\ \A b \in Branches : pc[b] = "idle" /\ modelCalls[b] = 0
  /\ op # "none" => (serverState = "listening" /\ datasets = LoadedDatasets)

C20_Witness ==
  /\ serverState = "exited"
  /\ datasets.hypertension = LoadedDatasets.hypertension
  /\ datasets.heartrisk = NullDoc

(***************************************************************************)
(* C21                                                                     *)
(***************************************************************************)
\* C21: once the server listens, no step of calculateStabilityScore,
\* generateNudges, getRelevantDatasets or getDashboardInsights, succeeding or
\* failing, changes the datasets the engine holds.
C21_DatasetsReadOnly ==
  [][serverState = "listening" => (datasets' = datasets /\ datasets = LoadedDatasets)]_vars

C21_Witness ==
  /\ op = "insights"
  /\ pc.score = "done"
  /\ pc.nudges = "done"
  /\ modelCalls.score = 1
  /\ modelCalls.nudges = 1
  /\ result.nudges.kind = "throw"
  /\ user.score.healthConditions = <<"Asthma">>
  /\ datasets = LoadedDatasets

(***************************************************************************)
(* Vitals records with their fields.  A field holds a number, the empty    *)
(* string (which the schema allows) or nothing.  Numbers are whole; an     *)
(* average is the fraction num / den with den > 0.                         *)
(***************************************************************************)
Undef == [k |-> "undefined", v |-> 0, s |-> ""]
Str(x) == [k |-> "string", v |-> 0, s |-> x]
Num(x) == [k |-> "number", v |-> x, s |-> ""]

\* parseFloat: NaN for undefined, for '' and for a mood word.
parseFloat(raw) ==
  IF raw.k = "number" THEN [nan |-> FALSE, v |-> raw.v] ELSE [nan |-> TRUE, v |-> 0]

\* JS truthiness of a field.
Truthy(raw) == (raw.k = "number" /\ raw.v # 0) \/ (raw.k = "string" /\ raw.s # "")

NumericFields ==
  <<"bloodPressureSystolic", "bloodPressureDiastolic", "heartRate", "weight", "temperature">>
TrackableFields == NumericFields \o <<"mood">>

VitalRecord(age, hr, wt, rest) ==
  [ageDays |-> age,
   bloodPressureSystolic |-> IF rest THEN Num(120) ELSE Undef,
   bloodPressureDiastolic |-> IF rest THEN Num(80) ELSE Undef,
   heartRate |-> hr,
   weight |-> wt,
   temperature |-> IF rest THEN Num(98) ELSE Str(""),
   mood |-> IF rest THEN Str("good") ELSE Undef]

\* Records the schema accepts: at least one vital or a mood.
SampleRecords ==
  { r \in { VitalRecord(1, hr, wt, rest) :
              hr \in {Undef, Num(60), Num(80)}, wt \in {Undef, Str(""), Num(150)},
              rest \in BOOLEAN } :
      \E i \in 1..Len(TrackableFields) : Truthy(r[TrackableFields[i]]) }

VitalsWindows == UNION {[1..n -> SampleRecords] : n \in 0..MaxWindow}

RECURSIVE SumSeq(_)
SumSeq(s) == IF s = << >> THEN 0 ELSE Head(s) + SumSeq(Tail(s))

RECURSIVE MapField(_, _)
\* vitals.map(vital => parseFloat(vital[field]))
MapField(vs, field) ==
  IF vs = << >> THEN << >> ELSE <<parseFloat(Head(vs)[field])>> \o MapField(Tail(vs), field)

NullAvg == [isNull |-> TRUE, num |-> 0, den |-> 1]

\* The average taken over all records of the half, not over the valid values.
calculateAverageOverAll(vs, field) ==
  LET values == SelectSeq(MapField(vs, field), LAMBDA val : ~val.nan /\ val.v > 0)
  IN IF Len(values) = 0 THEN NullAvg
     ELSE [isNull |-> FALSE, num |-> SumSeq([i \in 1..Len(values) |-> values[i].v]),
           den |-> Len(vs)]

\* DashboardController.calculateAverage
calculateAverage(vs, field) ==
  LET values == SelectSeq(MapField(vs, field), LAMBDA val : ~val.nan /\ val.v > 0)
  IN IF Len(values) = 0 THEN NullAvg
     ELSE [isNull |-> FALSE, num |-> SumSeq([i \in 1..Len(values) |-> values[i].v]),
           den |-> Len(values)]

\* Math.round of the fraction a / b, b > 0: floor(a / b + 1/2), on the exact
\* value of the fraction.
RoundDiv(a, b) == (2 * a + b) \div (2 * b)

\* The halves swapped at an odd length: the recent half takes the extra record.
SplitAtMidpointCeil(vs) ==
  LET midpoint == (Len(vs) + 1) \div 2
  IN [recent |-> SubSeq(vs, 1, midpoint), older |-> SubSeq(vs, midpoint + 1, Len(vs))]

\* midpoint = Math.floor(length / 2); slice(0, midpoint); slice(midpoint)
SplitAtMidpoint(vs) ==
  LET midpoint == Len(vs) \div 2
  IN [recent |-> SubSeq(vs, 1, midpoint), older |-> SubSeq(vs, midpoint + 1, Len(vs))]

\* The entry of one field, for averages that are both not null.
TrendOf(recentAvg, olderAvg) ==
  LET change == [num |-> recentAvg.num * olderAvg.den - olderAvg.num * recentAvg.den,
                 den |-> recentAvg.den * olderAvg.den]
  IN [change |-> change,
      \* percentChange in tenths: Math.round(percentChange * 10)
      percentChangeTenths |-> RoundDiv(1000 * change.num * olderAvg.den,
                                       change.den * olderAvg.num),
      direction |-> IF change.num > 0 THEN "up" ELSE IF change.num < 0 THEN "down"
                    ELSE "stable"]

\* DashboardController.calculateTrends; with the trends map it gives the two
\* halves it compared.
calculateTrends(vs) ==
  IF Len(vs) < 2
  THEN [isNull |-> TRUE, recent |-> << >>, older |-> << >>,
        trends |-> [f \in {} |-> 0]]
  ELSE LET halves == SplitAtMidpoint(vs)
           reported == { NumericFields[i] : i \in
                           { j \in 1..Len(NumericFields) :
                               /\ ~calculateAverage(halves.recent, NumericFields[j]).isNull
                               /\ ~calculateAverage(halves.older, NumericFields[j]).isNull } }
       IN [isNull |-> FALSE, recent |-> halves.recent, older |-> halves.older,
           trends |-> [f \in reported |->
                         TrendOf(calculateAverage(halves.recent, f),
                                 calculateAverage(halves.older, f))]]

Apply_calculateTrends == Apply("calculateTrends", calculateTrends(calc.arg))

(***************************************************************************)
(* C13, C14                                                                *)
(***************************************************************************)
\* C13 as stated: for n >= 2 records the recent half is the first ceil(n/2)
\* records and the older half the remaining floor(n/2).
C13_RecentGetsExtra ==
  (calc.fn = "calculateTrends" /\ calc.done /\ Len(calc.arg) >= 2) =>
     LET n == Len(calc.arg)
     IN /\ Len(calc.out.recent) = (n + 1) \div 2
        /\ Len(calc.out.older) = n \div 2

\* C13 amended: for n >= 2 records the sequence is split at floor(n/2): the
\* recent half is the first floor(n/2) records, the older half the remaining
\* ceil(n/2); at an odd length the older half has the extra record.
C13_OlderGetsExtra ==
  (calc.fn = "calculateTrends" /\ calc.done /\ Len(calc.arg) >= 2) =>
     LET n == Len(calc.arg)
     IN /\ Len(calc.out.recent) = n \div 2
        /\ Len(calc.out.older) = n - (n \div 2)
        /\ calc.out.recent = [i \in 1..(n \div 2) |-> calc.arg[i]]
        /\ calc.out.older = [i \in 1..(n - (n \div 2)) |-> calc.arg[(n \div 2) + i]]
        /\ (n % 2 = 1 => Len(calc.out.older) = Len(calc.out.recent) + 1)

C13_Witness ==
  /\ calc.fn = "calculateTrends"
  /\ calc.done
  /\ Len(calc.arg) = 3
  /\ Len(calc.out.older) = 2

\* The valid values of a field in a half: numbers above zero.
ValidAt(vs, field) ==
  { i \in 1..Len(vs) : vs[i][field].k = "number" /\ vs[i][field].v > 0 }

RECURSIVE SumAt(_, _, _)
SumAt(vs, field, idx) ==
  IF idx = {} THEN 0
  ELSE LET i == CHOOSE x \in idx : TRUE
       IN vs[i][field].v + SumAt(vs, field, idx \ {i})

\* C14: calculateTrends gives null below 2 records.  From 2 records on, the
\* two halves together are the input (disjoint, sizes adding up to n); a
\* field is reported iff each half has a valid value of it; for a reported
\* field change is the mean of the recent half minus the mean of the older
\* half, and direction is up, down or stable as change is above, below or
\* equal to zero.
C14_Trends ==
  (calc.fn = "calculateTrends" /\ calc.done) =>
     LET vs == calc.arg
         out == calc.out
     IN /\ (Len(vs) < 2 <=> out.isNull)
        /\ Len(vs) >= 2 =>
             /\ out.recent \o out.older = vs
             /\ Len(out.recent) + Len(out.older) = Len(vs)
             /\ \A i \in 1..Len(NumericFields) :
                   LET f == NumericFields[i]
                       r == ValidAt(out.recent, f)
                       o == ValidAt(out.older, f)
                   IN /\ (f \in DOMAIN out.trends) <=> (r # {} /\ o # {})
                      /\ (f \in DOMAIN out.trends) =>
                           LET t == out.trends[f]
                               rs == SumAt(out.recent, f, r)
                               os == SumAt(out.older, f, o)
                               \* sign of recentAvg - olderAvg
                               diff == rs * Cardinality(o) - os * Cardinality(r)
                           IN /\ t.change.den > 0
                              /\ t.change.num * Cardinality(r) * Cardinality(o)
                                   = diff * t.change.den
                              /\ (t.direction = "up") <=> (diff > 0)
                              /\ (t.direction = "down") <=> (diff < 0)
                              /\ (t.direction = "stable") <=> (diff = 0)

C14_Witness ==
  /\ calc.fn = "calculateTrends"
  /\ calc.done
  /\ Len(calc.arg) = 3
  /\ DOMAIN calc.out.trends = {"heartRate"}
  /\ calc.out.trends["heartRate"].direction = "down"
  /\ calc.arg[2].heartRate = Undef

(***************************************************************************)
(* getVitalsStats on the window getVitalsHistory gave it.                  *)
(***************************************************************************)
\* The values of a field that parse to a number above zero.
StatValues(vs, field) == SelectSeq(MapField(vs, field), LAMBDA val : ~val.nan /\ val.v > 0)

StatEntry(values) ==
  [value |-> [num |-> SumSeq([i \in 1..Len(values) |-> values[i].v]), den |-> Len(values)],
   count |-> Len(values)]

\* Every numeric field entered, whether or not it has a value.
StatsOfWindowEveryField(vs) ==
  IF Len(vs) = 0 THEN [isNull |-> TRUE, totalEntries |-> 0, averages |-> [f \in {} |-> 0]]
  ELSE [isNull |-> FALSE, totalEntries |-> Len(vs),
        averages |-> [f \in {NumericFields[i] : i \in 1..Len(NumericFields)} |->
                        StatEntry(StatValues(vs, f))]]

\* FirebaseService.getVitalsStats after `await this.getVitalsHistory(...)`
StatsOfWindow(vs) ==
  IF Len(vs) = 0 THEN [isNull |-> TRUE, totalEntries |-> 0, averages |-> [f \in {} |-> 0]]
  ELSE LET entered == { NumericFields[i] : i \in
                          { j \in 1..Len(NumericFields) :
                              Len(StatValues(vs, NumericFields[j])) > 0 } }
       IN [isNull |-> FALSE, totalEntries |-> Len(vs),
           averages |-> [f \in entered |-> StatEntry(StatValues(vs, f))]]

Apply_getVitalsStats == Apply("getVitalsStats", StatsOfWindow(calc.arg))

(***************************************************************************)
(* C15                                                                     *)
(***************************************************************************)
\* C15: getVitalsStats gives null for an empty window.  Otherwise averages
\* has a numeric field iff the window holds a valid (parseable, above zero)
\* value of it; the average is the mean of the valid values, above zero
\* and finite, and count is the number of valid values.
C15_Stats ==
  (calc.fn = "getVitalsStats" /\ calc.done) =>
     LET vs == calc.arg
         out == calc.out
     IN /\ (Len(vs) = 0 <=> out.isNull)
        /\ Len(vs) > 0 =>
             \A i \in 1..Len(NumericFields) :
               LET f == NumericFields[i]
                   valid == ValidAt(vs, f)
               IN /\ (f \in DOMAIN out.averages) <=> (valid # {})
                  /\ (f \in DOMAIN out.averages) =>
                       LET e == out.averages[f]
                       IN /\ e.count = Cardinality(valid)
                          /\ e.value.den > 0
                          /\ e.value.num > 0
                          /\ e.value.num * Cardinality(valid)
                               = SumAt(vs, f, valid) * e.value.den

C15_Witness ==
  /\ calc.fn = "getVitalsStats"
  /\ calc.done
  /\ Len(calc.arg) = 3
  /\ "weight" \notin DOMAIN calc.out.averages
  /\ "heartRate" \in DOMAIN calc.out.averages
  /\ calc.out.averages["heartRate"].count = 2

(***************************************************************************)
(* assessDataQuality.  Its windows are most recent first: the age of the   *)
(* records, in days before the call, does not decrease along the window.   *)
(***************************************************************************)
FillKinds == {"full", "four", "one"}

QualityRecord(fill, age) ==
  IF fill = "full" THEN VitalRecord(age, Num(60), Num(150), TRUE)
  ELSE IF fill = "four" THEN VitalRecord(age, Undef, Str(""), TRUE)
  ELSE VitalRecord(age, Num(60), Undef, FALSE)

\* A window of n records: the first `full` of them fully filled, the next
\* `four` with four fields, the others with one field.
QualityWindow(n, full, four, start, gap) ==
  [i \in 1..n |->
     QualityRecord(IF i <= full THEN "full" ELSE IF i <= full + four THEN "four" ELSE "one",
                   start + (i - 1) * gap)]

QualityWindows ==
  UNION { { QualityWindow(n, c[1], c[2], start, gap) :
              c \in { x \in (0..n) \X (0..n) : x[1] + x[2] <= n },
              start \in {0, 2, 20}, gap \in {0, 1} } :
          n \in 0..MaxQualityLen }

\* Only the numeric fields counted, the mood left out.
FilledFieldsNumeric(vital) ==
  Cardinality({ i \in 1..Len(NumericFields) :
                  Truthy(vital[NumericFields[i]]) /\ vital[NumericFields[i]] # Str("") })

\* fields.forEach(field => { if (vital[field] && vital[field] !== '') filledFields++ })
FilledFields(vital) ==
  Cardinality({ i \in 1..Len(TrackableFields) :
                  Truthy(vital[TrackableFields[i]]) /\ vital[TrackableFields[i]] # Str("") })

\* Math.min(consistencyScore, 1) left out.
CapAtOneMissing(q) == q

\* Math.min(q, 1) of a fraction
CapAtOne(q) == IF q.num > q.den THEN [num |-> q.den, den |-> q.den] ELSE q

\* Math.round of a double that stands for a / b.  The double is exact or
\* off by a rounding error: where a / b is an exact half it may lie on
\* the half (rounded upward) or just below it (rounded downward).
RoundDouble(a, b) ==
  IF (2 * a) % b = 0 /\ ((2 * a) \div b) % 2 = 1
  THEN {RoundDiv(a, b) - 1, RoundDiv(a, b)}
  ELSE {RoundDiv(a, b)}

\* overallScore > 70 ? ... : overallScore > 40 ? ... : ..., on a double that
\* stands for a / b; on a threshold it may lie on either side.
QualityMessage(a, b) ==
  (IF a >= 70 * b THEN {"Excellent data quality"} ELSE {})
    \cup (IF a <= 70 * b /\ a >= 40 * b THEN {"Good data quality"} ELSE {})
    \cup (IF a <= 40 * b THEN {"Consider logging more consistently"} ELSE {})

\* DashboardController.assessDataQuality: the objects it can return
assessDataQuality(vs) ==
  IF Len(vs) = 0 THEN {[score |-> 0, message |-> "No data available"]}
  ELSE LET recentEntries == SelectSeq(vs, LAMBDA vital : vital.ageDays <= RecentDays)
           completenessScore ==
             [num |-> SumSeq([i \in 1..Len(vs) |-> FilledFields(vs[i])]),
              den |-> Len(TrackableFields) * Len(vs)]
           consistencyScore == [num |-> Len(recentEntries), den |-> ConsistencyTarget]
           capped == CapAtOne(consistencyScore)
           \* (completenessScore * 0.6 + capped * 0.4) * 100
           overallScore ==
             [num |-> 60 * completenessScore.num * capped.den
                        + 40 * capped.num * completenessScore.den,
              den |-> completenessScore.den * capped.den]
       IN { [score |-> sc, completeness |-> cp, consistency |-> cs, message |-> msg] :
              sc \in RoundDouble(overallScore.num, overallScore.den),
              cp \in RoundDouble(100 * completenessScore.num, completenessScore.den),
              cs \in RoundDouble(100 * capped.num, capped.den),
              msg \in QualityMessage(overallScore.num, overallScore.den) }

Apply_assessDataQuality ==
  /\ calc.fn = "assessDataQuality"
  /\ \E out \in assessDataQuality(calc.arg) : Apply("assessDataQuality", out)

(***************************************************************************)
(* C16, C17                                                                *)
(***************************************************************************)
FullyFilled(vs) ==
  \A i \in 1..Len(vs) : \A j \in 1..Len(TrackableFields) :
     vs[i][TrackableFields[j]].k # "undefined" /\ vs[i][TrackableFields[j]] # Str("")

ConsecutiveDaily(vs) == \A i \in 1..(Len(vs) - 1) : vs[i + 1].ageDays = vs[i].ageDays + 1

InLast7Days(vs) == { i \in 1..Len(vs) : vs[i].ageDays <= 7 }

\* C16 as stated: score 0 for an empty window; consistency 100 and
\* completeness 100 for every window of 7 or more consecutive daily
\* fully-filled records.
C16_ConsecutiveDailyIsFull ==
  (calc.fn = "assessDataQuality" /\ calc.done) =>
     /\ Len(calc.arg) = 0 => calc.out.score = 0
     /\ (Len(calc.arg) >= 7 /\ ConsecutiveDaily(calc.arg) /\ FullyFilled(calc.arg)) =>
          (calc.out.consistency = 100 /\ calc.out.completeness = 100)

\* C16 amended: score 0 for an empty window; consistency 100 and
\* completeness 100 for every window of fully-filled records of which at
\* least 7 are dated within the 7 days before the call; 7 or more
\* consecutive daily fully-filled records with fewer than 7 of them in
\* those 7 days have completeness 100 and a consistency below 100.
C16_SevenInLast7Days ==
  (calc.fn = "assessDataQuality" /\ calc.done) =>
     /\ Len(calc.arg) = 0 => calc.out.score = 0
     /\ (FullyFilled(calc.arg) /\ Cardinality(InLast7Days(calc.arg)) >= 7) =>
          (calc.out.consistency = 100 /\ calc.out.completeness = 100)
     /\ (Len(calc.arg) >= 7 /\ ConsecutiveDaily(calc.arg) /\ FullyFilled(calc.arg)
           /\ Cardinality(InLast7Days(calc.arg)) < 7) =>
          (calc.out.consistency < 100 /\ calc.out.completeness = 100)

C16_Witness ==
  /\ calc.fn = "assessDataQuality"
  /\ calc.done
  /\ Len(calc.arg) >= 7
  /\ ConsecutiveDaily(calc.arg)
  /\ FullyFilled(calc.arg)
  /\ calc.out.consistency = 100
  /\ calc.out.completeness = 100

\* r is a whole number nearest to a / b: r - 1/2 <= a / b <= r + 1/2.  At
\* an exact half Math.round goes upward, and a double that fell just short
\* of the half goes downward; both are nearest.
IsRounded(r, a, b) == 2 * r * b - b <= 2 * a /\ 2 * a <= 2 * r * b + b

\* C17: for a non-empty window completeness, consistency and score are whole
\* numbers in 0..100; completeness is 100 times the mean over the records
\* of filled fields / 6, rounded; consistency is 100 times min(1, records
\* of the last 7 days / 7), rounded; score is 100 * (0.6 * completeness +
\* 0.4 * consistency) of the fractions, rounded; more than 7 records in
\* the last 7 days count as 7.
C17_QualityParts ==
  (calc.fn = "assessDataQuality" /\ calc.done /\ Len(calc.arg) > 0) =>
     LET vs == calc.arg
         out == calc.out
         n == Len(vs)
         filled == SumSeq([i \in 1..n |->
                     Cardinality({ j \in 1..6 :
                        vs[i][TrackableFields[j]].k = "number"
                          \/ (vs[i][TrackableFields[j]].k = "string"
                                /\ vs[i][TrackableFields[j]].s # "") })])
         r == Cardinality(InLast7Days(vs))
         m == Min(r, 7)
     IN /\ out.completeness \in 0..100
        /\ out.consistency \in 0..100
        /\ out.score \in 0..100
        \* completeness = round(100 * filled / (6 n))
        /\ IsRounded(out.completeness, 100 * filled, 6 * n)
        \* consistency = round(100 * m / 7)
        /\ IsRounded(out.consistency, 100 * m, 7)
        \* score = round(60 * filled / (6 n) + 40 * m / 7)
        /\ IsRounded(out.score, 70 * filled + 40 * n * m, 7 * n)
        /\ r > 7 => out.consistency = 100

C17_Witness ==
  /\ calc.fn = "assessDataQuality"
  /\ calc.done
  /\ Cardinality(InLast7Days(calc.arg)) > 7
  /\ calc.out.consistency = 100
  /\ calc.out.completeness \in 1..99
  /\ calc.out.score \in 41..99

(***************************************************************************)
(* The prompts built from a long vitals collection.                        *)
(***************************************************************************)
\* Vitals collections of up to MaxHistory records, most recent first, one
\* record every `gap` days.
LongStores ==
  { [i \in 1..n |-> [id |-> i, ageDays |-> (i - 1) * gap]] :
      n \in 0..MaxHistory, gap \in {0, 1, 3} }

\* calculateStabilityScore from the history lookup to the prompt
Apply_buildStabilityScorePrompt ==
  Apply("buildStabilityScorePrompt",
        ScoreAfterHistory(profile, getVitalsHistory(calc.arg, HistoryDays, HistoryLimit),
                          datasets, 0).prompt)

\* generateNudges from the latest-vitals lookup to the prompt
Apply_buildNudgePrompt ==
  Apply("buildNudgePrompt",
        NudgesAfterLatest(profile, getLatestVitals(calc.arg, LatestCount), datasets, 0).prompt)

(***************************************************************************)
(* C19                                                                     *)
(***************************************************************************)
\* C19: the stability prompt embeds at most 10 vitals records, the first 10
\* of the most-recent-first 30-day history (all of it when it has fewer),
\* however long the history is; the nudge prompt embeds exactly one vitals
\* record, the most recent of the collection.
C19_PromptVitalsBounded ==
  /\ (calc.fn = "buildStabilityScorePrompt" /\ calc.done /\ calc.out.kind = "stability") =>
       LET history == SelectSeq(calc.arg, LAMBDA r : r.ageDays <= 30)
           embedded == calc.out.vitals
       IN /\ Len(embedded) <= 10
          /\ Len(embedded) = Min(10, Len(history))
          /\ \A i \in 1..Len(embedded) : embedded[i] = history[i]
  /\ (calc.fn = "buildNudgePrompt" /\ calc.done /\ calc.out.kind = "nudge") =>
       calc.out.vitals = <<calc.arg[1]>>
  /\ (calc.fn \in {"buildStabilityScorePrompt", "buildNudgePrompt"} /\ calc.done) =>
       (calc.out = NoPrompt <=> calc.arg = << >>)

C19_Witness ==
  /\ calc.fn = "buildStabilityScorePrompt"
  /\ calc.done
  /\ Len(calc.arg) > 10
  /\ Len(calc.out.vitals) = 10
  /\ calc.out.vitals[10] = calc.arg[10]

(***************************************************************************)
(* POST /api/vitals: validate(vitalsLogSchema), then logVitals.  A body    *)
(* gives each field as a number, a string, null, or not at all.            *)
(***************************************************************************)
Null == [k |-> "null", v |-> 0, s |-> ""]

\* The strings Joi converts to a number (convert: true), with their value.
NumericStrings == [x \in {"120"} |-> 120]

Moods == {"great", "good", "okay", "stressed", "tired", "unwell"}

Invalid == [ok |-> FALSE, val |-> Undef]
Valid(val) == [ok |-> TRUE, val |-> val]

\* Joi.number().min(lo).max(hi).allow('')
JoiNumber(raw, lo, hi) ==
  CASE raw.k = "undefined" -> Valid(Undef)
    [] raw = Str("") -> Valid(raw)
    [] raw.k = "null" -> Invalid
    [] raw.k = "number" -> IF lo <= raw.v /\ raw.v <= hi THEN Valid(raw) ELSE Invalid
    [] OTHER ->
         IF raw.s \in DOMAIN NumericStrings
              /\ lo <= NumericStrings[raw.s] /\ NumericStrings[raw.s] <= hi
         THEN Valid(Num(NumericStrings[raw.s]))
         ELSE Invalid

\* Joi.string().valid('great', ..).allow('')
JoiMood(raw) ==
  CASE raw.k = "undefined" -> Valid(Undef)
    [] raw.k = "string" /\ (raw.s = "" \/ raw.s \in Moods) -> Valid(raw)
    [] OTHER -> Invalid

\* The keys of vitalsLogSchema, each under its own rule.
SchemaKeys(body) ==
  [bloodPressureSystolic |-> JoiNumber(body.bloodPressureSystolic, 70, 300),
   bloodPressureDiastolic |-> JoiNumber(body.bloodPressureDiastolic, 40, 200),
   heartRate |-> JoiNumber(body.heartRate, 30, 220),
   weight |-> JoiNumber(body.weight, 50, 1000),
   temperature |-> JoiNumber(body.temperature, 90, 115),
   mood |-> JoiMood(body.mood)]

\* The custom rule without the test that both pressures are given.
VitalsCustomRuleNoPairTest(value) ==
  LET hasVital == \E i \in 1..Len(NumericFields) :
                    /\ value[NumericFields[i]] # Str("")
                    /\ value[NumericFields[i]].k \notin {"undefined", "null"}
      hasSystolic == Truthy(value.bloodPressureSystolic)
      hasDiastolic == Truthy(value.bloodPressureDiastolic)
  IN CASE ~hasVital /\ (~Truthy(value.mood) \/ value.mood = Str("")) -> "vitals.required"
       [] hasSystolic /\ hasDiastolic
            /\ value.bloodPressureSystolic.v <= value.bloodPressureDiastolic.v
            -> "vitals.bloodPressureInvalid"
       [] OTHER -> "none"

\* vitalsLogSchema's .custom(...): the error it reports, "none" when it
\* returns the value.
VitalsCustomRule(value) ==
  LET hasVital == \E i \in 1..Len(NumericFields) :
                    /\ value[NumericFields[i]] # Str("")
                    /\ value[NumericFields[i]].k \notin {"undefined", "null"}
      hasSystolic == Truthy(value.bloodPressureSystolic)
                       /\ value.bloodPressureSystolic # Str("")
      hasDiastolic == Truthy(value.bloodPressureDiastolic)
                        /\ value.bloodPressureDiastolic # Str("")
  IN CASE ~hasVital /\ (~Truthy(value.mood) \/ value.mood = Str("")) -> "vitals.required"
       [] hasSystolic /\ ~hasDiastolic -> "vitals.bloodPressureIncomplete"
       [] hasDiastolic /\ ~hasSystolic -> "vitals.bloodPressureIncomplete"
       [] hasSystolic /\ hasDiastolic
            /\ value.bloodPressureSystolic.v <= value.bloodPressureDiastolic.v
            -> "vitals.bloodPressureInvalid"
       [] OTHER -> "none"

\* schema.validate(req.body, {abortEarly: false, stripUnknown: true, convert: true})
vitalsLogSchema(body) ==
  LET keys == SchemaKeys(body)
      value == [f \in DOMAIN keys |-> keys[f].val]
  IN IF \E f \in DOMAIN keys : ~keys[f].ok THEN [error |-> "key", value |-> value]
     ELSE [error |-> VitalsCustomRule(value), value |-> value]

\* validate(vitalsLogSchema): 400, or req.validatedData = value and next()
validate(body) ==
  LET v == vitalsLogSchema(body)
  IN IF v.error # "none" THEN [status |-> 400, next |-> FALSE, validatedData |-> v.value]
     ELSE [status |-> 0, next |-> TRUE, validatedData |-> v.value]

\* POST /api/vitals from validate up to the reply: the status and the
\* documents added to the collection.  `added` tells whether Firestore's
\* add() succeeded.
postVitals(body, added) ==
  LET v == validate(body)
  IN IF ~v.next THEN [status |-> 400, stored |-> << >>]
     ELSE IF added THEN [status |-> 201, stored |-> <<v.validatedData>>]
     ELSE [status |-> 500, stored |-> << >>]

RequestBodies ==
  [bloodPressureSystolic : {Undef, Str(""), Null, Num(120), Num(60), Num(80), Str("120")},
   bloodPressureDiastolic : {Undef, Str(""), Num(80), Num(120)},
   heartRate : {Undef, Num(72), Str("abc")},
   weight : {Undef, Num(150)},
   temperature : {Undef},
   mood : {Undef, Str(""), Str("good"), Str("angry")}]

Apply_postVitals ==
  /\ calc.fn = "postVitals"
  /\ \E added \in BOOLEAN : Apply("postVitals", postVitals(calc.arg, added))

(***************************************************************************)
(* C22                                                                     *)
(***************************************************************************)
\* A field given with a value: a number, or a string that is not empty.
Given(raw) == raw.k = "number" \/ (raw.k = "string" /\ raw.s # "")

NumberOf(raw) ==
  IF raw.k = "number" THEN raw.v
  ELSE IF raw.s \in DOMAIN NumericStrings THEN NumericStrings[raw.s] ELSE 0

\* The rules of a vitals record: a vital or a mood; both pressures or
\* neither; systolic above diastolic.
KeepsRecordRules(r) ==
  /\ \E f \in {"bloodPressureSystolic", "bloodPressureDiastolic", "heartRate", "weight",
                "temperature", "mood"} : Given(r[f])
  /\ Given(r.bloodPressureSystolic) <=> Given(r.bloodPressureDiastolic)
  /\ Given(r.bloodPressureSystolic) =>
       NumberOf(r.bloodPressureSystolic) > NumberOf(r.bloodPressureDiastolic)

\* C22: every record POST /api/vitals hands to storage has a vital or a
\* mood, both pressures or neither, and systolic above diastolic; a body
\* that breaks one of these is answered 400 and nothing is stored.
C22_StoredRecordsValid ==
  (calc.fn = "postVitals" /\ calc.done) =>
     /\ \A i \in 1..Len(calc.out.stored) : KeepsRecordRules(calc.out.stored[i])
     /\ ~KeepsRecordRules(calc.arg) => (calc.out.status = 400 /\ calc.out.stored = << >>)
     /\ calc.out.status # 201 => calc.out.stored = << >>

C22_Witness ==
  /\ calc.fn = "postVitals"
  /\ calc.done
  /\ calc.arg.bloodPressureSystolic = Str("120")
  /\ calc.arg.bloodPressureDiastolic = Num(80)
  /\ calc.out.status = 201
  /\ calc.out.stored[1].bloodPressureSystolic = Num(120)

(***************************************************************************)
(* The protected routes: /api/vitals and /api/dashboard behind             *)
(* router.use(verifyToken), one request at a time.                         *)
(***************************************************************************)
\* The uids with a profile document in Firestore.
ProfileUids == {"u1", "u2"}

\* Authorization headers: none, a scheme without a token, and tokens of
\* two users with a profile, of a user without one, and tokens Firebase
\* refuses.
Headers ==
  {"none", "Bearer", "Bearer t-u1", "Bearer t-u2", "Bearer t-ghost", "Bearer t-expired",
   "Bearer t-revoked", "Bearer t-invalid", "Bearer t-unverifiable"}

\* authHeader.split(' ')[1]
TokenOf(header) ==
  IF header \in {"none", "Bearer"} THEN ""
  ELSE CASE header = "Bearer t-u1" -> "t-u1"
         [] header = "Bearer t-u2" -> "t-u2"
         [] header = "Bearer t-ghost" -> "t-ghost"
         [] header = "Bearer t-expired" -> "t-expired"
         [] header = "Bearer t-revoked" -> "t-revoked"
         [] header = "Bearer t-invalid" -> "t-invalid"
         [] OTHER -> "t-unverifiable"

\* firebaseService.verifyIdToken: the decoded uid, or the code it throws.
verifyIdToken(token) ==
  CASE token = "t-u1" -> [ok |-> TRUE, uid |-> "u1", code |-> ""]
    [] token = "t-u2" -> [ok |-> TRUE, uid |-> "u2", code |-> ""]
    [] token = "t-ghost" -> [ok |-> TRUE, uid |-> "u3", code |-> ""]
    [] token = "t-expired" -> [ok |-> FALSE, uid |-> "", code |-> "auth/id-token-expired"]
    [] token = "t-revoked" -> [ok |-> FALSE, uid |-> "", code |-> "auth/id-token-revoked"]
    [] token = "t-invalid" -> [ok |-> FALSE, uid |-> "", code |-> "auth/invalid-id-token"]
    [] OTHER -> [ok |-> FALSE, uid |-> "", code |-> "auth/argument-error"]

Refused(status, lookup) ==
  [status |-> status, next |-> FALSE, userId |-> "", lookup |-> lookup]

\* The profile lookup left out: every verified token goes on.
verifyTokenNoProfile(header, firestoreUp) ==
  IF header = "none" THEN Refused(401, "none")
  ELSE IF TokenOf(header) = "" THEN Refused(401, "none")
  ELSE LET decodedToken == verifyIdToken(TokenOf(header))
       IN IF ~decodedToken.ok THEN Refused(401, "none")
          ELSE [status |-> 0, next |-> TRUE, userId |-> decodedToken.uid, lookup |-> "none"]

\* verifyToken: what it answers, or next() with req.userId set.
\* firestoreUp tells whether getUserById reached Firestore.
verifyToken(header, firestoreUp) ==
  IF header = "none" THEN Refused(401, "none")
  ELSE IF TokenOf(header) = "" THEN Refused(401, "none")
  ELSE LET decodedToken == verifyIdToken(TokenOf(header))
       IN IF ~decodedToken.ok THEN Refused(401, "none")
          ELSE IF ~firestoreUp THEN Refused(401, "failed")
          ELSE IF decodedToken.uid \notin ProfileUids THEN Refused(404, "missing")
          ELSE [status |-> 0, next |-> TRUE, userId |-> decodedToken.uid, lookup |-> "found"]

NoBody ==
  [bloodPressureSystolic |-> Undef, bloodPressureDiastolic |-> Undef, heartRate |-> Undef,
   weight |-> Undef, temperature |-> Undef, mood |-> Undef]

SampleBodies ==
  { [NoBody EXCEPT !.mood = Str("good")],
    [NoBody EXCEPT !.bloodPressureSystolic = Str("120"), !.bloodPressureDiastolic = Num(80)],
    [NoBody EXCEPT !.bloodPressureSystolic = Num(120)],
    NoBody }

ReadRoutes ==
  {"GET /api/vitals", "GET /api/vitals/latest", "GET /api/vitals/stats",
   "GET /api/vitals/charts", "GET /api/dashboard", "GET /api/dashboard/insights",
   "GET /api/dashboard/summary"}

NoRequest == [route |-> "none", body |-> NoBody, vitalsId |-> 0]

ApiRequests ==
  {[route |-> "POST /api/vitals", body |-> b, vitalsId |-> 0] : b \in SampleBodies}
    \cup {[route |-> "DELETE /api/vitals/:vitalsId", body |-> NoBody, vitalsId |-> i] :
            i \in 1..MaxDocs}
    \cup {[route |-> r, body |-> NoBody, vitalsId |-> 0] : r \in ReadRoutes}

\* api.store: the vitals documents, each in the collection of its owner.
ApiIdle ==
  [stage |-> "idle", req |-> NoRequest, header |-> "none", userId |-> "", lookup |-> "none",
   handlerRuns |-> 0, status |-> 0, store |-> {}, nextId |-> 1]

\* collection('users').doc(userId).collection('vitals').add(vitalsDoc)
addDoc(store, userId, id, data) == store \cup {[id |-> id, owner |-> userId, data |-> data]}

\* The whole vitals collection of the user deleted.
deleteDocAll(store, userId, vitalsId) == { d \in store : d.owner # userId }

\* collection('users').doc(userId).collection('vitals').doc(vitalsId).delete()
deleteDoc(store, userId, vitalsId) ==
  { d \in store : ~(d.owner = userId /\ d.id = vitalsId) }

ApiFrame == UNCHANGED <<requestVars, calc, auth>>

\* A request arrives at a protected route.
Api_Receive ==
  /\ api.stage \in {"idle", "done"}
  /\ \E r \in ApiRequests, h \in Headers :
       api' = [api EXCEPT !.stage = "verifyToken", !.req = r, !.header = h, !.userId = "",
                          !.lookup = "none", !.handlerRuns = 0, !.status = 0]
  /\ ApiFrame

\* router.use(verifyToken)
Api_VerifyToken ==
  /\ api.stage = "verifyToken"
  /\ \E firestoreUp \in BOOLEAN :
       LET v == verifyToken(api.header, firestoreUp)
       IN api' = [api EXCEPT
                    !.stage = IF ~v.next THEN "done"
                              ELSE IF api.req.route = "POST /api/vitals" THEN "validate"
                              ELSE "handler",
                    !.status = v.status, !.userId = v.userId, !.lookup = v.lookup]
  /\ ApiFrame

\* validate(vitalsLogSchema) of POST /api/vitals
Api_Validate ==
  /\ api.stage = "validate"
  /\ LET v == validate(api.req.body)
     IN api' = [api EXCEPT !.stage = IF v.next THEN "handler" ELSE "done",
                           !.status = v.status,
                           !.req = [api.req EXCEPT !.body = v.validatedData]]
  /\ ApiFrame

\* The controller method of the route, with the outcome of its Firestore call.
Api_Handler ==
  /\ api.stage = "handler"
  /\ \E ok \in BOOLEAN :
       api' =
         CASE ~ok -> [api EXCEPT !.stage = "done", !.status = 500, !.handlerRuns = @ + 1]
           [] ok /\ api.req.route = "POST /api/vitals" ->
                IF api.nextId > MaxDocs
                THEN [api EXCEPT !.stage = "done", !.status = 500, !.handlerRuns = @ + 1]
                ELSE [api EXCEPT !.stage = "done", !.status = 201, !.handlerRuns = @ + 1,
                                 !.store = addDoc(api.store, api.userId, api.nextId,
                                                  api.req.body),
                                 !.nextId = @ + 1]
           [] ok /\ api.req.route = "DELETE /api/vitals/:vitalsId" ->
                [api EXCEPT !.stage = "done", !.status = 200, !.handlerRuns = @ + 1,
                            !.store = deleteDoc(api.store, api.userId, api.req.vitalsId)]
           [] OTHER -> [api EXCEPT !.stage = "done", !.status = 200, !.handlerRuns = @ + 1]
  /\ ApiFrame

ApiInit ==
  /\ IdleBackend
  /\ calc = NoCalc
  /\ auth = NoAuth
  /\ api = ApiIdle

ApiNext ==
  \/ Api_Receive
  \/ Api_VerifyToken
  \/ Api_Validate
  \/ Api_Handler

ApiSpec == ApiInit /\ [][ApiNext]_vars

(***************************************************************************)
(* C23                                                                     *)
(***************************************************************************)
DocIds(store) == { d.id : d \in store }

\* C23: in every step each stored vitals record either stays as it is or is
\* deleted, and a new record gets an id no record has or had; a step
\* deletes at most the one record DELETE names, in the caller's own
\* collection, and every other record stays as it is.
C23_RecordsImmutable ==
  [][/\ \A d \in api.store : d \in api'.store \/ d.id \notin DocIds(api'.store)
     /\ \A d \in api'.store \ api.store :
          /\ d.id = api.nextId
          /\ api.req.route = "POST /api/vitals"
          /\ api'.store \ api.store = {d}
          /\ api.store \subseteq api'.store
     /\ \A d \in api.store \ api'.store :
          /\ api.req.route = "DELETE /api/vitals/:vitalsId"
          /\ d.id = api.req.vitalsId
          /\ d.owner = api.userId
          /\ api'.store = api.store \ {d}
     /\ \A d \in api.store : d.id < api.nextId
     /\ \A d, e \in api.store : d.id = e.id => d = e]_vars

C23_Witness ==
  /\ api.stage = "done"
  /\ api.req.route = "DELETE /api/vitals/:vitalsId"
  /\ api.status = 200
  /\ api.req.vitalsId = 1
  /\ api.nextId = 3
  /\ DocIds(api.store) = {2}
  /\ \E d \in api.store : d.owner = api.userId

(***************************************************************************)
(* C25                                                                     *)
(***************************************************************************)
\* The headers that carry a token Firebase verifies for a user who has a
\* profile, with the uid of the token.
UidOfHeader == [h \in {"Bearer t-u1", "Bearer t-u2"} |-> IF h = "Bearer t-u1" THEN "u1" ELSE "u2"]

\* C25: validation and the handler of a protected route run only for a
\* request whose token was verified and whose profile was loaded, with
\* req.userId the uid of the token; a request without header, without
\* token or with a token that fails verification is answered 401, one whose
\* profile is missing 404, and for none of them the handler runs.
C25_HandlerBehindVerifyToken ==
  /\ (api.stage \in {"validate", "handler"} \/ api.handlerRuns > 0) =>
       /\ api.header \in DOMAIN UidOfHeader
       /\ api.userId = UidOfHeader[api.header]
       /\ api.lookup = "found"
  /\ (api.stage = "done" /\ api.header \notin DOMAIN UidOfHeader) =>
       /\ api.handlerRuns = 0
       /\ api.status = IF api.lookup = "missing" THEN 404 ELSE 401
  /\ (api.stage = "done" /\ api.lookup = "missing") => api.header = "Bearer t-ghost"
  /\ api.handlerRuns <= 1

C25_Witness ==
  /\ api.stage = "done"
  /\ api.header = "Bearer t-ghost"
  /\ api.status = 404
  /\ api.req.route = "DELETE /api/vitals/:vitalsId"
  /\ \E d \in api.store : d.id = api.req.vitalsId

(***************************************************************************)
(* C24                                                                     *)
(***************************************************************************)
\* C24: a model call that failed, whatever the class of its failure (quota,
\* blocked content, configuration, transient), ends with the engine call
\* returning a fallback value: the fixed assessment for the stability score,
\* the default nudges for the nudges.
C24_FallbackForEveryClass ==
  \A b \in Branches : \A class \in ErrorClass :
     (ModelThrewTo(b) /\ modelResponse.class = class) =>
        /\ pc[b] = "done"
        /\ result[b].kind = "return"
        /\ result[b].val = IF b = "score" THEN FallbackAssessment
                                          ELSE getDefaultNudges(profile)

(***************************************************************************)
(* The auth store of the frontend (store/auth-store.ts), the Firebase Auth *)
(* client it drives and the backend's /register, /login and /logout.       *)
(* A Firebase account is named by its email, which also stands for its uid.*)
(***************************************************************************)
Emails == {"ann@vc", "bo@vc"}
FullNames == {"Ann Lee", "Bo"}
ConditionChoices == {<< >>, <<"Diabetes">>}

NoFirebaseUser == "null"
NullUser == [id |-> "null", email |-> "", fullName |-> "", healthConditions |-> << >>]
IsNullUser(u) == u.id = "null"

\* The document of users/{uid}; NoDoc when the document does not exist.
NoDoc == [exists |-> FALSE, fullName |-> "", healthConditions |-> << >>]
UserDoc(fullName, healthConditions) ==
  [exists |-> TRUE, fullName |-> fullName, healthConditions |-> healthConditions]

\* The state the store is created with.
InitialStore ==
  [user |-> NullUser, firebaseUser |-> NoFirebaseUser, isAuthenticated |-> FALSE,
   isLoading |-> FALSE, isInitializing |-> TRUE]

\* zustand's set: the fields of the partial state replace the store's.
set(store, partial) ==
  [k \in DOMAIN store |-> IF k \in DOMAIN partial THEN partial[k] ELSE store[k]]

\* persist: user and isAuthenticated are written to and read back from storage.
partialize(store) == [user |-> store.user, isAuthenticated |-> store.isAuthenticated]
Rehydrated(persisted) == set(InitialStore, persisted)

\* The user object the store builds from the data of a backend response.
StoreUser(data) ==
  [id |-> data.uid, email |-> data.email, fullName |-> data.fullName,
   healthConditions |-> data.healthConditions]

\* POST /api/register: create the account in Firebase Auth, then write the
\* profile document.  The answer and the accounts and documents afterwards.
backendRegister(accounts, docs, userData, firestoreUp) ==
  IF userData.email \in accounts
  THEN [status |-> 409, success |-> FALSE, data |-> NullUser,
        accounts |-> accounts, docs |-> docs]
  ELSE IF ~firestoreUp
  THEN [status |-> 500, success |-> FALSE, data |-> NullUser,
        accounts |-> accounts \cup {userData.email}, docs |-> docs]
  ELSE [status |-> 201, success |-> TRUE,
        data |-> [uid |-> userData.email, email |-> userData.email,
                  fullName |-> userData.fullName,
                  healthConditions |-> userData.healthConditions],
        accounts |-> accounts \cup {userData.email},
        docs |-> [docs EXCEPT ![userData.email] =
                     UserDoc(userData.fullName, userData.healthConditions)]]

\* POST /api/login for the ID token of account uid: verify the token, read
\* the profile document, write a basic one when there is none.
backendLogin(docs, uid, tokenValid, firestoreUp) ==
  IF ~tokenValid
  THEN [status |-> 401, success |-> FALSE, data |-> NullUser, docs |-> docs]
  ELSE IF ~firestoreUp
  THEN [status |-> 500, success |-> FALSE, data |-> NullUser, docs |-> docs]
  ELSE IF ~docs[uid].exists
  THEN [status |-> 200, success |-> TRUE,
        data |-> [uid |-> uid, email |-> uid, fullName |-> "", healthConditions |-> << >>],
        docs |-> [docs EXCEPT ![uid] = UserDoc("", << >>)]]
  ELSE [status |-> 200, success |-> TRUE,
        data |-> [uid |-> uid, email |-> uid, fullName |-> docs[uid].fullName,
                  healthConditions |-> docs[uid].healthConditions],
        docs |-> docs]

\* What a call of authAPI gives the store for an answer of the backend: the
\* body of a 2xx answer; for another status the body (success = false) or a
\* rejection; a rejection too when no answer arrives.
Delivered == {"body", "rejected"}
authAPI(answer, delivery) ==
  IF delivery = "rejected"
  THEN [rejected |-> TRUE, success |-> FALSE, data |-> NullUser]
  ELSE [rejected |-> FALSE, success |-> answer.success, data |-> answer.data]

\* The number of calls of login, register and logout in one run.
MaxOps == 2

NoCall ==
  [name |-> "none", pc |-> "none", email |-> "", fullName |-> "", healthConditions |-> << >>,
   created |-> FALSE, backend |-> "none", status |-> 0, signedOut |-> FALSE,
   settled |-> "none"]
StartCall(name, at, email, fullName, healthConditions) ==
  [NoCall EXCEPT !.name = name, !.pc = at, !.email = email, !.fullName = fullName,
                 !.healthConditions = healthConditions, !.settled = "pending"]

\* The partial state the listener sets when there is no Firebase user or
\* its backend login threw.
ListenerSignedOut ==
  [user |-> NullUser, firebaseUser |-> NoFirebaseUser, isAuthenticated |-> FALSE,
   isInitializing |-> FALSE]
\* What the listener sets after a successful backend login.
ListenerSignedIn(data, firebaseUser) ==
  [user |-> StoreUser(data), firebaseUser |-> firebaseUser, isAuthenticated |-> TRUE,
   isInitializing |-> FALSE]
\* What login and register set after a successful backend answer.
CallSignedIn(data, firebaseUser) ==
  [user |-> StoreUser(data), firebaseUser |-> firebaseUser, isAuthenticated |-> TRUE,
   isLoading |-> FALSE]
\* A logout that forgets the user object.
LogoutSetKeepsUser ==
  [firebaseUser |-> NoFirebaseUser, isAuthenticated |-> FALSE, isLoading |-> FALSE]
\* What logout sets after signOut.
LogoutSet ==
  [user |-> NullUser, firebaseUser |-> NoFirebaseUser, isAuthenticated |-> FALSE,
   isLoading |-> FALSE]

\* Firebase tells the registered listener of a change of the signed-in user.
Notify(a, firebaseUser) ==
  IF a.listening THEN Append(a.events, firebaseUser) ELSE a.events

RemoveAt(s, i) == SubSeq(s, 1, i - 1) \o SubSeq(s, i + 1, Len(s))

\* The outcome of the first auth-state callback, once it has finished.
FirstOutcome(a, wasFirst, outcome) == IF wasFirst THEN outcome ELSE a.first

AuthFrame == UNCHANGED <<requestVars, calc, api>>

\* The page loads: the store is created (or rehydrated from storage), with
\* the accounts and profiles that exist and the user Firebase remembers.
AuthStart(accounts, currentUser, store) ==
  [stage |-> "on", store |-> store, currentUser |-> currentUser, accounts |-> accounts,
   docs |-> [e \in Emails |-> IF e \in accounts THEN UserDoc("Bo", <<"Diabetes">>) ELSE NoDoc],
   listening |-> FALSE, events |-> << >>, callbacks |-> << >>, firstSeen |-> FALSE,
   first |-> "pending", call |-> NoCall, ops |-> 0]

\* App's effect: initializeAuth registers the listener; Firebase calls it
\* with the user it has.
Auth_initializeAuth ==
  /\ auth.stage = "on"
  /\ ~auth.listening
  /\ auth' = [auth EXCEPT !.listening = TRUE, !.events = <<auth.currentUser>>]
  /\ AuthFrame

\* The listener is called with the next auth state.
Auth_onAuthStateChanged ==
  /\ auth.stage = "on"
  /\ auth.events # << >>
  /\ LET firebaseUser == Head(auth.events)
         wasFirst == ~auth.firstSeen
     IN IF firebaseUser = NoFirebaseUser
        THEN auth' = [auth EXCEPT !.events = Tail(@), !.firstSeen = TRUE,
                                  !.store = set(@, ListenerSignedOut),
                                  !.first = FirstOutcome(auth, wasFirst, "nouser")]
        ELSE auth' = [auth EXCEPT !.events = Tail(@), !.firstSeen = TRUE,
                                  !.callbacks = Append(@, [firebaseUser |-> firebaseUser,
                                                           pc |-> "getIdToken",
                                                           first |-> wasFirst])]
  /\ AuthFrame

\* The listener's await firebaseUser.getIdToken() settles.
Auth_ListenerGetIdToken ==
  /\ auth.stage = "on"
  /\ \E i \in 1..Len(auth.callbacks) : \E ok \in BOOLEAN :
       LET cb == auth.callbacks[i]
       IN /\ cb.pc = "getIdToken"
          /\ auth' = IF ok
                     THEN [auth EXCEPT !.callbacks[i].pc = "login"]
                     ELSE [auth EXCEPT !.callbacks = RemoveAt(@, i),
                                       !.store = set(@, ListenerSignedOut),
                                       !.first = FirstOutcome(auth, cb.first, "error")]
  /\ AuthFrame

\* The listener's await authAPI.login(idToken) settles.
Auth_ListenerLogin ==
  /\ auth.stage = "on"
  /\ \E i \in 1..Len(auth.callbacks) :
     \E tokenValid \in BOOLEAN : \E firestoreUp \in BOOLEAN : \E delivery \in Delivered :
       LET cb == auth.callbacks[i]
           answer == backendLogin(auth.docs, cb.firebaseUser, tokenValid, firestoreUp)
           res == authAPI(answer, delivery)
       IN /\ cb.pc = "login"
          /\ auth' =
               IF res.rejected
               THEN [auth EXCEPT !.callbacks = RemoveAt(@, i), !.docs = answer.docs,
                                 !.store = set(@, ListenerSignedOut),
                                 !.first = FirstOutcome(auth, cb.first, "error")]
               ELSE IF res.success
               THEN [auth EXCEPT !.callbacks = RemoveAt(@, i), !.docs = answer.docs,
                                 !.store = set(@, ListenerSignedIn(res.data,
                                                                   cb.firebaseUser)),
                                 !.first = FirstOutcome(auth, cb.first, "ok")]
               ELSE [auth EXCEPT !.callbacks = RemoveAt(@, i), !.docs = answer.docs,
                                 !.first = FirstOutcome(auth, cb.first, "unsuccessful")]
  /\ AuthFrame

\* The login and register forms are shown, and the logout menu, as App
\* renders them: nothing while initializing, then by isAuthenticated.
CanCall(a) ==
  /\ a.stage = "on"
  /\ a.call.settled # "pending"
  /\ a.ops < MaxOps
  /\ ~a.store.isInitializing

\* The catch block of login and of register.
CallCatch(a) ==
  [a EXCEPT !.store = set(@, [isLoading |-> FALSE]), !.call.pc = "done",
            !.call.settled = "rejected"]

\* login(email, password) is called: set({ isLoading: true }).
Auth_login ==
  /\ CanCall(auth)
  /\ ~auth.store.isAuthenticated
  /\ \E email \in Emails :
       auth' = [auth EXCEPT !.store = set(@, [isLoading |-> TRUE]), !.ops = @ + 1,
                            !.call = StartCall("login", "signIn", email, "", << >>)]
  /\ AuthFrame

\* await signInWithEmailAndPassword settles: signed in to an account that
\* exists, or a failure (no such account, wrong password, no network).
Auth_LoginSignIn ==
  /\ auth.stage = "on"
  /\ auth.call.name = "login" /\ auth.call.pc = "signIn"
  /\ \E ok \in BOOLEAN :
       auth' = IF ok /\ auth.call.email \in auth.accounts
               THEN [auth EXCEPT !.currentUser = auth.call.email,
                                 !.events = Notify(auth, auth.call.email),
                                 !.call.pc = "getIdToken"]
               ELSE CallCatch(auth)
  /\ AuthFrame

\* login's await firebaseUser.getIdToken() settles.
Auth_LoginGetIdToken ==
  /\ auth.stage = "on"
  /\ auth.call.name = "login" /\ auth.call.pc = "getIdToken"
  /\ \E ok \in BOOLEAN :
       auth' = IF ok THEN [auth EXCEPT !.call.pc = "backend"] ELSE CallCatch(auth)
  /\ AuthFrame

\* login's await authAPI.login(idToken) settles.
Auth_LoginBackend ==
  /\ auth.stage = "on"
  /\ auth.call.name = "login" /\ auth.call.pc = "backend"
  /\ \E tokenValid \in BOOLEAN : \E firestoreUp \in BOOLEAN : \E delivery \in Delivered :
       LET answer == backendLogin(auth.docs, auth.call.email, tokenValid, firestoreUp)
           res == authAPI(answer, delivery)
       IN auth' =
            IF res.rejected
            THEN [CallCatch(auth) EXCEPT !.docs = answer.docs, !.call.backend = "rejected",
                                         !.call.status = answer.status]
            ELSE IF res.success
            THEN [auth EXCEPT !.docs = answer.docs,
                              !.store = set(@, CallSignedIn(res.data, auth.call.email)),
                              !.call.pc = "done", !.call.backend = "ok",
                              !.call.status = answer.status, !.call.settled = "resolved"]
            ELSE [CallCatch(auth) EXCEPT !.docs = answer.docs,
                                         !.call.backend = "unsuccessful",
                                         !.call.status = answer.status]
  /\ AuthFrame

\* register(userData) is called: set({ isLoading: true }).
Auth_register ==
  /\ CanCall(auth)
  /\ ~auth.store.isAuthenticated
  /\ \E email \in Emails : \E fullName \in FullNames :
     \E healthConditions \in ConditionChoices :
       auth' = [auth EXCEPT !.store = set(@, [isLoading |-> TRUE]), !.ops = @ + 1,
                            !.call = StartCall("register", "createUser", email, fullName,
                                               healthConditions)]
  /\ AuthFrame

\* await createUserWithEmailAndPassword settles: the account is created and
\* signed in to, or a failure (the email is in use, no network).
Auth_RegisterCreateUser ==
  /\ auth.stage = "on"
  /\ auth.call.name = "register" /\ auth.call.pc = "createUser"
  /\ \E ok \in BOOLEAN :
       auth' = IF ok /\ auth.call.email \notin auth.accounts
               THEN [auth EXCEPT !.accounts = @ \cup {auth.call.email},
                                 !.currentUser = auth.call.email,
                                 !.events = Notify(auth, auth.call.email),
                                 !.call.created = TRUE, !.call.pc = "backend"]
               ELSE CallCatch(auth)
  /\ AuthFrame

\* register's await authAPI.register(userData) settles.
Auth_RegisterBackend ==
  /\ auth.stage = "on"
  /\ auth.call.name = "register" /\ auth.call.pc = "backend"
  /\ \E firestoreUp \in BOOLEAN : \E delivery \in Delivered :
       LET answer == backendRegister(auth.accounts, auth.docs,
                                     [email |-> auth.call.email,
                                      fullName |-> auth.call.fullName,
                                      healthConditions |-> auth.call.healthConditions],
                                     firestoreUp)
           res == authAPI(answer, delivery)
       IN auth' =
            IF res.rejected
            THEN [CallCatch(auth) EXCEPT !.accounts = answer.accounts, !.docs = answer.docs,
                                         !.call.backend = "rejected",
                                         !.call.status = answer.status]
            ELSE IF res.success
            THEN [auth EXCEPT !.accounts = answer.accounts, !.docs = answer.docs,
                              !.store = set(@, CallSignedIn(res.data, auth.call.email)),
                              !.call.pc = "done", !.call.backend = "ok",
                              !.call.status = answer.status, !.call.settled = "resolved"]
            ELSE [auth EXCEPT !.accounts = answer.accounts, !.docs = answer.docs,
                              !.call.pc = "delete", !.call.backend = "unsuccessful",
                              !.call.status = answer.status]
  /\ AuthFrame

\* register's await firebaseUser.delete() settles; then the Error is thrown
\* into the catch block (as is the failure of delete).
Auth_RegisterDelete ==
  /\ auth.stage = "on"
  /\ auth.call.name = "register" /\ auth.call.pc = "delete"
  /\ \E ok \in BOOLEAN :
       auth' = IF ok
               THEN [CallCatch(auth) EXCEPT !.accounts = @ \ {auth.call.email},
                                            !.currentUser = NoFirebaseUser,
                                            !.events = Notify(auth, NoFirebaseUser)]
               ELSE CallCatch(auth)
  /\ AuthFrame

\* logout() is called from the menu of the dashboard.
Auth_logout ==
  /\ CanCall(auth)
  /\ auth.store.isAuthenticated
  /\ auth' = [auth EXCEPT !.ops = @ + 1,
                          !.call = StartCall("logout", "backend", "", "", << >>)]
  /\ AuthFrame

\* logout's await authAPI.logout() settles; a failure is caught and logged.
Auth_LogoutBackend ==
  /\ auth.stage = "on"
  /\ auth.call.name = "logout" /\ auth.call.pc = "backend"
  /\ \E delivery \in Delivered :
       auth' = [auth EXCEPT !.call.pc = "signOut",
                            !.call.backend = IF delivery = "rejected" THEN "rejected"
                                                                      ELSE "ok"]
  /\ AuthFrame

\* logout's await signOut(auth) settles; a failure is caught and logged.
Auth_LogoutSignOut ==
  /\ auth.stage = "on"
  /\ auth.call.name = "logout" /\ auth.call.pc = "signOut"
  /\ \E ok \in BOOLEAN :
       auth' = IF ok
               THEN [auth EXCEPT !.currentUser = NoFirebaseUser,
                                 !.events = Notify(auth, NoFirebaseUser),
                                 !.store = set(@, LogoutSet),
                                 !.call.pc = "done", !.call.signedOut = TRUE,
                                 !.call.settled = "resolved"]
               ELSE [auth EXCEPT !.call.pc = "done", !.call.settled = "resolved"]
  /\ AuthFrame

\* A page load: no account or Bo's, Firebase remembering a user or not, the
\* store new or rehydrated with what an earlier visit persisted.
AuthInit ==
  /\ IdleBackend
  /\ calc = NoCalc
  /\ api = NoApi
  /\ \E accounts \in {{}, {"bo@vc"}} : \E currentUser \in accounts \cup {NoFirebaseUser} :
     \E persisted \in {partialize(InitialStore)} \cup
                      {partialize(set(InitialStore,
                                      CallSignedIn(backendLogin(AuthStart(accounts, currentUser,
                                                                          InitialStore).docs,
                                                                e, TRUE, TRUE).data, e)))
                         : e \in accounts} :
       auth = AuthStart(accounts, currentUser, Rehydrated(persisted))

AuthNext ==
  \/ Auth_initializeAuth
  \/ Auth_onAuthStateChanged
  \/ Auth_ListenerGetIdToken
  \/ Auth_ListenerLogin
  \/ Auth_login
  \/ Auth_LoginSignIn
  \/ Auth_LoginGetIdToken
  \/ Auth_LoginBackend
  \/ Auth_register
  \/ Auth_RegisterCreateUser
  \/ Auth_RegisterBackend
  \/ Auth_RegisterDelete
  \/ Auth_logout
  \/ Auth_LogoutBackend
  \/ Auth_LogoutSignOut

AuthSpec == AuthInit /\ [][AuthNext]_vars

(***************************************************************************)
(* C26 .. C30                                                              *)
(***************************************************************************)
\* C26: when register() has created the Firebase user and the backend
\* registration then failed (an answer with success = false, or a rejected
\* HTTP call), register() has rejected, the Firebase user is deleted, and
\* the store is unauthenticated with isLoading = false.
C26_FailedRegistrationCleansUp ==
  (/\ auth.stage = "on" /\ auth.call.name = "register" /\ auth.call.created
   /\ auth.call.backend \in {"unsuccessful", "rejected"}
   /\ auth.call.pc = "done") =>
     /\ auth.call.settled = "rejected"
     /\ auth.call.email \notin auth.accounts
     /\ ~auth.store.isAuthenticated
     /\ ~auth.store.isLoading

\* C27: when register() has created the Firebase user for a new email and
\* the backend has answered (its Firestore working), the answer is 201,
\* register() has resolved, the one account exists, and the store is
\* authenticated with a user that carries the fullName and the
\* healthConditions given.
C27_RegisterNewEmailSucceeds ==
  (/\ auth.stage = "on" /\ auth.call.name = "register" /\ auth.call.created
   /\ auth.call.backend \in {"ok", "unsuccessful"}
   /\ auth.call.status # 500) =>
     /\ auth.call.status = 201
     /\ auth.call.settled = "resolved"
     /\ auth.call.email \in auth.accounts
     /\ auth.store.isAuthenticated
     /\ auth.store.user.fullName = auth.call.fullName
     /\ auth.store.user.healthConditions = auth.call.healthConditions

\* C28: once login() has resolved, the store is authenticated with a user,
\* whatever the listener's callbacks do before or after.
C28_LoginStaysAuthenticated ==
  (auth.stage = "on" /\ auth.call.name = "login" /\ auth.call.settled = "resolved") =>
     /\ auth.store.isAuthenticated
     /\ ~IsNullUser(auth.store.user)

\* C29: in every state of the store isAuthenticated is true exactly when
\* user is not null, and the step in which logout's signOut succeeds leaves
\* user = null and isAuthenticated = false, also after a failed backend
\* logout.
C29_AuthenticatedIffUser ==
  [][auth.stage = "on" =>
       /\ auth.store.isAuthenticated <=> ~IsNullUser(auth.store.user)
       /\ auth'.store.isAuthenticated <=> ~IsNullUser(auth'.store.user)
       /\ (auth.call.pc = "signOut" /\ auth'.call.signedOut) =>
             /\ IsNullUser(auth'.store.user)
             /\ ~auth'.store.isAuthenticated]_vars

C29_Witness ==
  /\ auth.stage = "on"
  /\ auth.call.name = "logout"
  /\ auth.call.backend = "rejected"
  /\ auth.call.signedOut
  /\ auth.callbacks = << >> /\ auth.events = << >>
  /\ IsNullUser(auth.store.user)
  /\ ~auth.store.isAuthenticated

CalcInit ==
  /\ IdleBackend
  /\ api = NoApi
  /\ auth = NoAuth
  /\ \/ calc \in {Input("extractJSON", t) : t \in Texts}
     \/ calc \in {Input("getRelevantDatasets", c) : c \in ConditionLists}
     \/ calc \in {Input("calculateTrends", w) : w \in VitalsWindows}
     \/ calc \in {Input("getVitalsStats", w) : w \in VitalsWindows}
     \/ calc \in {Input("assessDataQuality", w) : w \in QualityWindows}
     \/ calc \in {Input("buildStabilityScorePrompt", st) : st \in LongStores}
     \/ calc \in {Input("buildNudgePrompt", st) : st \in LongStores}
     \/ calc \in {Input("postVitals", body) : body \in RequestBodies}

CalcNext ==
  \/ Apply_extractJSON
  \/ Apply_getRelevantDatasets
  \/ Apply_calculateTrends
  \/ Apply_getVitalsStats
  \/ Apply_assessDataQuality
  \/ Apply_buildStabilityScorePrompt
  \/ Apply_buildNudgePrompt
  \/ Apply_postVitals

CalcSpec == CalcInit /\ [][CalcNext]_vars

====
